---- MODULE Spec2Model ----
(***************************************************************************)
(* SentinelForge event-to-action pipeline: Falco envelope -> ThreatEvent   *)
(* (FalcoProcessor) -> anomaly score (MLService) -> RemediationAction      *)
(* (RLService) -> execution (RemediationService), with the two-tier store  *)
(* (app.storage) and the WebSocket hub (ConnectionManager).                *)
(*                                                                         *)
(* Text is a sequence of one-character strings.  Scores (ml_score) are     *)
(* integers in percent; confidences are integers in thousandths, so that   *)
(* 0.2 * ml_score and 0.3 * ml_score are exact.  An optional value is      *)
(* None (the empty sequence) or Some(x) (a one-element sequence).          *)
(***************************************************************************)
EXTENDS Integers, Sequences, FiniteSets, TLC

None == <<>>

Some(x) == <<x>>

\* ---------------------------------------------------------------- enums

ThreatSeverity == {"low", "medium", "high", "critical"}

\* ThreatType members, in declaration order.
ThreatTypeOrder ==
    << "reverse_shell", "privilege_escalation", "unauthorized_access", "malicious_process",
       "network_anomaly", "file_anomaly", "container_escape", "unknown" >>

ThreatType == { ThreatTypeOrder[i] : i \in 1..Len(ThreatTypeOrder) }

\* ActionType members, in declaration order.
ActionTypeOrder ==
    << "monitor", "log", "alert", "isolate_pod", "terminate_pod", "block_network",
       "terminate_process", "escalate" >>

ActionType == { ActionTypeOrder[i] : i \in 1..Len(ActionTypeOrder) }

RiskLevel == {"low", "medium", "high"}

\* ----------------------------------------------------------------- text

UpperChars ==
    << "A","B","C","D","E","F","G","H","I","J","K","L","M",
       "N","O","P","Q","R","S","T","U","V","W","X","Y","Z" >>

LowerChars ==
    << "a","b","c","d","e","f","g","h","i","j","k","l","m",
       "n","o","p","q","r","s","t","u","v","w","x","y","z" >>

\* str.lower() on one ASCII character.
LowerChar(c) ==
    IF \E i \in 1..Len(UpperChars) : UpperChars[i] = c
    THEN LowerChars[CHOOSE i \in 1..Len(UpperChars) : UpperChars[i] = c]
    ELSE c

\* str.lower()
Lower(s) == [i \in 1..Len(s) |-> LowerChar(s[i])]

\* Python's `keyword in text` (substring test).
Contains(text, keyword) ==
    \E i \in 1..(Len(text) - Len(keyword) + 1) :
        \A j \in 1..Len(keyword) : text[i + j - 1] = keyword[j]

\* Python's s[:n]
Truncate(s, n) == IF Len(s) <= n THEN s ELSE SubSeq(s, 1, n)

\* ------------------------------------------------------ FalcoProcessor

\* A table that differs from PRIORITY_TO_SEVERITY at "Critical", which it maps to CRITICAL.
PriorityTableCriticalIsCritical(priority) ==
    CASE priority = "Emergency"     -> Some("critical")
      [] priority = "Alert"         -> Some("high")
      [] priority = "Critical"      -> Some("critical")
      [] priority = "Error"         -> Some("medium")
      [] priority = "Warning"       -> Some("medium")
      [] priority = "Notice"        -> Some("low")
      [] priority = "Informational" -> Some("low")
      [] priority = "Debug"         -> Some("low")
      [] OTHER                      -> None

\* The PRIORITY_TO_SEVERITY table: Some(severity) for a key of the dict, None otherwise.
PRIORITY_TO_SEVERITY(priority) ==
    CASE priority = "Emergency"     -> Some("critical")
      [] priority = "Alert"         -> Some("high")
      [] priority = "Critical"      -> Some("high")
      [] priority = "Error"         -> Some("medium")
      [] priority = "Warning"       -> Some("medium")
      [] priority = "Notice"        -> Some("low")
      [] priority = "Informational" -> Some("low")
      [] priority = "Debug"         -> Some("low")
      [] OTHER                      -> None

\* self.PRIORITY_TO_SEVERITY.get(priority, ThreatSeverity.LOW)
SeverityOf(priority) ==
    IF PRIORITY_TO_SEVERITY(priority) = None THEN "low" ELSE PRIORITY_TO_SEVERITY(priority)[1]

KW_REVERSE_SHELL ==
    << <<"r","e","v","e","r","s","e"," ","s","h","e","l","l">>,
       <<"n","c"," ">>,
       <<"n","e","t","c","a","t">>,
       <<"b","a","s","h"," ","-","i">>,
       <<"/","b","i","n","/","s","h">>,
       <<"s","h","e","l","l">> >>

KW_PRIVILEGE_ESCALATION ==
    << <<"s","u","d","o">>,
       <<"s","u"," ">>,
       <<"s","e","t","u","i","d">>,
       <<"s","e","t","g","i","d">>,
       <<"c","a","p","a","b","i","l","i","t","i","e","s">> >>

KW_UNAUTHORIZED_ACCESS ==
    << <<"u","n","a","u","t","h","o","r","i","z","e","d">>,
       <<"f","o","r","b","i","d","d","e","n">>,
       <<"a","c","c","e","s","s"," ","d","e","n","i","e","d">> >>

KW_MALICIOUS_PROCESS ==
    << <<"m","a","l","w","a","r","e">>,
       <<"v","i","r","u","s">>,
       <<"t","r","o","j","a","n">>,
       <<"b","a","c","k","d","o","o","r">> >>

KW_NETWORK_ANOMALY ==
    << <<"p","o","r","t"," ","s","c","a","n">>,
       <<"b","r","u","t","e"," ","f","o","r","c","e">>,
       <<"d","d","o","s">> >>

KW_FILE_ANOMALY ==
    << <<"s","e","n","s","i","t","i","v","e"," ","f","i","l","e">>,
       <<"p","a","s","s","w","o","r","d">>,
       <<"s","e","c","r","e","t">>,
       <<"c","r","e","d","e","n","t","i","a","l">> >>

KW_CONTAINER_ESCAPE ==
    << <<"c","o","n","t","a","i","n","e","r"," ","e","s","c","a","p","e">>,
       <<"h","o","s","t"," ","m","o","u","n","t">>,
       <<"p","r","i","v","i","l","e","g","e","d">> >>

\* The keyword table, in the dict's insertion (declaration) order.
THREAT_KEYWORDS ==
    << [threat_type |-> "reverse_shell",        keywords |-> KW_REVERSE_SHELL],
       [threat_type |-> "privilege_escalation", keywords |-> KW_PRIVILEGE_ESCALATION],
       [threat_type |-> "unauthorized_access",  keywords |-> KW_UNAUTHORIZED_ACCESS],
       [threat_type |-> "malicious_process",    keywords |-> KW_MALICIOUS_PROCESS],
       [threat_type |-> "network_anomaly",      keywords |-> KW_NETWORK_ANOMALY],
       [threat_type |-> "file_anomaly",         keywords |-> KW_FILE_ANOMALY],
       [threat_type |-> "container_escape",     keywords |-> KW_CONTAINER_ESCAPE] >>

\* any(keyword in combined for keyword in keywords)
AnyKeyword(combined, keywords) ==
    \E k \in 1..Len(keywords) : Contains(combined, keywords[k])

RECURSIVE DetectFrom(_, _)
\* The for loop of _detect_threat_type from table entry i on.
DetectFrom(combined, i) ==
    IF i > Len(THREAT_KEYWORDS) THEN "unknown"
    ELSE IF AnyKeyword(combined, THREAT_KEYWORDS[i].keywords)
         THEN THREAT_KEYWORDS[i].threat_type
         ELSE DetectFrom(combined, i + 1)

RECURSIVE DetectBackFrom(_, _)
\* A loop over the table from entry i down: the last declared match wins.
DetectBackFrom(combined, i) ==
    IF i < 1 THEN "unknown"
    ELSE IF AnyKeyword(combined, THREAT_KEYWORDS[i].keywords)
         THEN THREAT_KEYWORDS[i].threat_type
         ELSE DetectBackFrom(combined, i - 1)

\* A detection in which the last declared match wins.
DetectThreatTypeLastMatch(output, rule) ==
    DetectBackFrom(output \o <<" ">> \o rule, Len(THREAT_KEYWORDS))

\* _detect_threat_type(output, rule); the caller passes both lowercased.
DetectThreatType(output, rule) == DetectFrom(output \o <<" ">> \o rule, 1)

\* ------------------------------------------------- sample Falco events
\* (tests/fixtures/falco_events.py and the events the unit tests build)

REVERSE_SHELL_EVENT_output ==
    <<"1","7",":","2","0",":","4","2",".","1","2","3","4","5","6","7","8","9",":"," ","C",
      "r","i","t","i","c","a","l"," ","R","e","v","e","r","s","e"," ","s","h","e","l","l",
      " ","d","e","t","e","c","t","e","d">>

REVERSE_SHELL_EVENT_rule ==
    <<"R","e","v","e","r","s","e"," ","s","h","e","l","l"," ","d","e","t","e","c","t","e",
      "d">>

PRIVILEGE_ESCALATION_EVENT_output ==
    <<"1","7",":","2","0",":","4","2",".","1","2","3","4","5","6","7","8","9",":"," ","A",
      "l","e","r","t"," ","P","r","i","v","i","l","e","g","e"," ","e","s","c","a","l","a",
      "t","i","o","n"," ","a","t","t","e","m","p","t">>

PRIVILEGE_ESCALATION_EVENT_rule ==
    <<"P","r","i","v","i","l","e","g","e"," ","e","s","c","a","l","a","t","i","o","n"," ",
      "a","t","t","e","m","p","t">>

NETWORK_ANOMALY_EVENT_output ==
    <<"1","7",":","2","0",":","4","2",".","1","2","3","4","5","6","7","8","9",":"," ","W",
      "a","r","n","i","n","g"," ","S","u","s","p","i","c","i","o","u","s"," ","n","e","t",
      "w","o","r","k"," ","a","c","t","i","v","i","t","y">>

NETWORK_ANOMALY_EVENT_rule ==
    <<"S","u","s","p","i","c","i","o","u","s"," ","n","e","t","w","o","r","k"," ","a","c",
      "t","i","v","i","t","y">>

CONTAINER_ESCAPE_EVENT_output ==
    <<"1","7",":","2","0",":","4","2",".","1","2","3","4","5","6","7","8","9",":"," ","C",
      "r","i","t","i","c","a","l"," ","C","o","n","t","a","i","n","e","r"," ","e","s","c",
      "a","p","e"," ","a","t","t","e","m","p","t"," ","d","e","t","e","c","t","e","d">>

CONTAINER_ESCAPE_EVENT_rule ==
    <<"C","o","n","t","a","i","n","e","r"," ","e","s","c","a","p","e"," ","a","t","t","e",
      "m","p","t">>

LOW_SEVERITY_EVENT_output ==
    <<"1","7",":","2","0",":","4","2",".","1","2","3","4","5","6","7","8","9",":"," ","N",
      "o","t","i","c","e"," ","U","n","a","u","t","h","o","r","i","z","e","d"," ","p","a",
      "c","k","a","g","e"," ","i","n","s","t","a","l","l","a","t","i","o","n">>

LOW_SEVERITY_EVENT_rule ==
    <<"U","n","a","u","t","h","o","r","i","z","e","d"," ","p","a","c","k","a","g","e"," ",
      "i","n","s","t","a","l","l","a","t","i","o","n">>

ETC_PASSWD_output ==
    <<"T","e","s","t"," ","e","v","e","n","t"," ","w","i","t","h"," ","/","e","t","c","/",
      "p","a","s","s","w","d">>

ETC_PASSWD_rule ==
    <<"R","u","l","e"," ","w","i","t","h"," ","/","e","t","c","/","p","a","s","s","w","d">>

PORT_SCAN_output ==
    <<"T","e","s","t"," ","e","v","e","n","t"," ","w","i","t","h"," ","p","o","r","t"," ",
      "s","c","a","n">>

PORT_SCAN_rule ==
    <<"R","u","l","e"," ","w","i","t","h"," ","p","o","r","t"," ","s","c","a","n">>

SUDO_SU_output ==
    <<"T","e","s","t"," ","e","v","e","n","t"," ","w","i","t","h"," ","s","u","d","o"," ",
      "s","u">>

SUDO_SU_rule ==
    <<"R","u","l","e"," ","w","i","t","h"," ","s","u","d","o"," ","s","u">>

\* ---------------------------------------------------------------- state

VARIABLES
    USE_DATABASE,        \* app.storage.USE_DATABASE
    _threats_db,         \* app.storage._threats_db: the in-memory list of ThreatEvent
    _actions_db,         \* app.storage._actions_db: the in-memory list of RemediationAction
    db_threats,          \* rows of table threat_events
    db_actions,          \* rows of table remediation_actions
    active_connections,  \* ConnectionManager.active_connections
    ml_initialized,      \* MLService.initialized (and model loaded)
    use_rl_agent,        \* RLService.use_rl_agent (and agent loaded)
    k8s_initialized,     \* RemediationService.initialized (and k8s_client set)
    next_id,             \* the next identifier uuid4() mints
    now,                 \* the clock datetime.utcnow() reads
    arg,                 \* the argument of the pending direct service call (None: none pending)
    ret                  \* the record of the last completed call (None: none yet)

vars ==
    << USE_DATABASE, _threats_db, _actions_db, db_threats, db_actions, active_connections,
       ml_initialized, use_rl_agent, k8s_initialized, next_id, now, arg, ret >>

\* --------------------------------------------------------------- models

\* ThreatEvent(): the pydantic model with its field defaults.
ThreatEvent(id, detected_at) ==
    [ id |-> id, detected_at |-> detected_at,
      severity |-> "medium", threat_type |-> "unknown",
      source_pod |-> None, source_namespace |-> None,
      source_container |-> None, source_user |-> None,
      description |-> <<>>, falco_output |-> <<>>,
      falco_rule |-> None, falco_priority |-> None,
      ml_score |-> None, confidence |-> 0,
      resolved |-> FALSE, resolved_at |-> None ]

\* RemediationAction(threat_id=...): the pydantic model with its field defaults.
RemediationAction(id, threat_id) ==
    [ id |-> id, threat_id |-> threat_id,
      action_type |-> "monitor", risk_level |-> "low",
      confidence |-> 0, ml_score |-> None,
      executed |-> FALSE, executed_at |-> None, success |-> None, error_message |-> None,
      requires_confirmation |-> FALSE, confirmed_by |-> None, confirmed_at |-> None ]

\* -------------------------------------------------------------- storage

\* The list with the entry carrying `id` replaced by `obj`: the in-memory lists hold
\* references, so a later mutation of the object shows in the list.
Alias(list, obj) == [i \in 1..Len(list) |-> IF list[i].id = obj.id THEN obj ELSE list[i]]

\* add_threat(threat): insert into the table; if the database is off or the insert
\* raises (db_ok = FALSE, or the primary key exists) append to the in-memory list.
DbInsertOk(table, row, db_ok) == db_ok /\ \A i \in 1..Len(table) : table[i].id # row.id

add_threat_db(table, threat, db_ok) ==
    IF USE_DATABASE /\ DbInsertOk(table, threat, db_ok) THEN Append(table, threat) ELSE table

\* An add_threat whose fallback rebinds the list to the new record alone.
AddThreatMemReplacing(list, table, threat, db_ok) ==
    IF USE_DATABASE /\ DbInsertOk(table, threat, db_ok) THEN list ELSE << threat >>

add_threat_mem(list, table, threat, db_ok) ==
    IF USE_DATABASE /\ DbInsertOk(table, threat, db_ok) THEN list ELSE Append(list, threat)

\* add_action(action): the same discipline on the actions table and list.
add_action_db(table, action, db_ok) ==
    IF USE_DATABASE /\ DbInsertOk(table, action, db_ok) THEN Append(table, action) ELSE table

add_action_mem(list, table, action, db_ok) ==
    IF USE_DATABASE /\ DbInsertOk(table, action, db_ok) THEN list ELSE Append(list, action)

\* get_threats_db(): the table's rows, or the in-memory list when the database is off
\* or the query raises.
get_threats_db(db_ok) == IF USE_DATABASE /\ db_ok THEN db_threats ELSE _threats_db

\* get_actions_db()
get_actions_db(db_ok) == IF USE_DATABASE /\ db_ok THEN db_actions ELSE _actions_db

\* ------------------------------------------------------------------ hub

\* ConnectionManager.broadcast(message): one send_json per member, in list order; a
\* send that raises is skipped and leaves no trace.  The record of the call: the message
\* and the members a send was attempted to.
broadcast(message) ==
    [ message |-> message, attempted |-> active_connections ]

\* ------------------------------------------------- FalcoProcessor (cont.)

DESCRIPTION_MAX == 500

BROADCAST_DESCRIPTION_MAX == 100

RuleDefault == <<"U","n","k","n","o","w","n">>

NoFields == [k \in {} |-> ""]

\* event.get(key, default) on the envelope's top level.
EventGet(event, key, default) == IF key \in event.keys THEN event[key] ELSE default

\* output_fields.get(key): Some(value) or None.
FieldGet(fields, key) == IF key \in DOMAIN fields THEN Some(fields[key]) ELSE None

\* Python's `a or b` on optional strings: a unless it is None or empty.
PyOr(a, b) == IF a # None /\ a[1] # "" THEN a ELSE b

\* The ThreatEvent process_event builds from a mapping envelope.
NormalizedThreat(event, id, detected_at) ==
    LET output        == EventGet(event, "output", <<>>)
        priority      == EventGet(event, "priority", "Informational")
        rule          == EventGet(event, "rule", RuleDefault)
        output_fields == EventGet(event, "output_fields", NoFields)
    IN  [ ThreatEvent(id, detected_at) EXCEPT
            !.severity         = SeverityOf(priority),
            !.threat_type      = DetectThreatType(Lower(output), Lower(rule)),
            !.source_pod       = PyOr(FieldGet(output_fields, "k8s.pod.name"),
                                      FieldGet(output_fields, "k8s.pod.name")),
            !.source_namespace = PyOr(FieldGet(output_fields, "k8s.ns.name"),
                                      IF "k8s.namespace.name" \in DOMAIN output_fields
                                      THEN FieldGet(output_fields, "k8s.namespace.name")
                                      ELSE Some("default")),
            !.source_container = PyOr(FieldGet(output_fields, "container.name"),
                                      FieldGet(output_fields, "k8s.container.name")),
            !.source_user      = PyOr(FieldGet(output_fields, "user.name"),
                                      FieldGet(output_fields, "proc.user")),
            !.description      = Truncate(output, DESCRIPTION_MAX),
            !.falco_output     = output,
            !.falco_rule       = Some(rule),
            !.falco_priority   = Some(priority),
            !.confidence       = 700 ]

\* A message that reports every threat at the model's default severity.
ThreatMessageDefaultSeverity(threat) ==
    [ type        |-> "threat_detected",
      threat_id   |-> threat.id,
      severity    |-> "medium",
      threat_type |-> threat.threat_type,
      pod         |-> threat.source_pod,
      description |-> Truncate(threat.description, BROADCAST_DESCRIPTION_MAX) ]

\* The message process_event hands to manager.broadcast.
ThreatMessage(threat) ==
    [ type        |-> "threat_detected",
      threat_id   |-> threat.id,
      severity    |-> threat.severity,
      threat_type |-> threat.threat_type,
      pod         |-> threat.source_pod,
      description |-> Truncate(threat.description, BROADCAST_DESCRIPTION_MAX) ]

\* process_event(event): the returned threat (None when the body of the try raised:
\* a top level that is no mapping has no .get) and what the call left in the store and
\* sent to the hub.  db_ok: the database insert succeeds.
process_event(event, db_ok) ==
    IF ~event.is_mapping
    THEN [ threat |-> None, mem |-> _threats_db, db |-> db_threats, broadcasts |-> <<>> ]
    ELSE LET threat == NormalizedThreat(event, next_id, now)
         IN  [ threat     |-> Some(threat),
               mem        |-> add_threat_mem(_threats_db, db_threats, threat, db_ok),
               db         |-> add_threat_db(db_threats, threat, db_ok),
               broadcasts |-> << broadcast(ThreatMessage(threat)) >> ]

\* ------------------------------------------------------------ MLService

Max(a, b) == IF a >= b THEN a ELSE b

Min(a, b) == IF a <= b THEN a ELSE b

\* The mock-mode table of detect_anomaly, with its .get default (percent).
severity_scores(severity) ==
    CASE severity = "low"      -> 30
      [] severity = "medium"   -> 60
      [] severity = "high"     -> 85
      [] severity = "critical" -> 95
      [] OTHER                 -> 50

\* A detect_anomaly whose except clause answers from the severity table.
DetectAnomalyTableOnRaise(threat, model) ==
    IF ~ml_initialized \/ model.raises THEN severity_scores(threat.severity)
    ELSE Max(0, Min(100, model.decision_score + 50))

\* A detect_anomaly that shifts the decision value and does not clamp it.
DetectAnomalyUnclamped(threat, model) ==
    IF ~ml_initialized THEN severity_scores(threat.severity)
    ELSE IF model.raises THEN 50
    ELSE model.decision_score + 50

\* detect_anomaly(threat).  model: what the fitted model does on this call, either
\* [raises |-> TRUE] or [raises |-> FALSE, decision_score |-> d] with d in percent.
detect_anomaly(threat, model) ==
    IF ~ml_initialized THEN severity_scores(threat.severity)
    ELSE IF model.raises THEN 50
    ELSE Max(0, Min(100, model.decision_score + 50))

\* ------------------------------------------------------------ RLService

\* CyberSecurityEnv._action_to_type(action): action_map.get(action, MONITOR)
_action_to_type(action) ==
    IF action \in 0..(Len(ActionTypeOrder) - 1) THEN ActionTypeOrder[action + 1] ELSE "monitor"

\* Python truthiness of an optional score: None and 0 are false.
Truthy(score) == score # None /\ score[1] # 0

\* A confirmation rule that asks for HIGH risk only.
RequiresConfirmationHighOnly(risk_level) == risk_level = "high"

\* requires_confirmation=(risk_level in [RiskLevel.MEDIUM, RiskLevel.HIGH])
RequiresConfirmation(risk_level) == risk_level \in {"medium", "high"}

\* A rule table without the CONTAINER_ESCAPE override at severity HIGH.
RuleBaseNoContainerEscape(threat) ==
    IF threat.severity = "critical"
    THEN IF threat.threat_type = "reverse_shell"
         THEN [action_type |-> "terminate_pod", risk_level |-> "high", confidence |-> 900]
         ELSE [action_type |-> "isolate_pod", risk_level |-> "medium", confidence |-> 800]
    ELSE IF threat.severity = "high"
    THEN IF threat.threat_type = "reverse_shell"
         THEN [action_type |-> "isolate_pod", risk_level |-> "medium", confidence |-> 750]
         ELSE [action_type |-> "alert", risk_level |-> "low", confidence |-> 700]
    ELSE IF threat.severity = "medium"
    THEN [action_type |-> "alert", risk_level |-> "low", confidence |-> 600]
    ELSE [action_type |-> "log", risk_level |-> "low", confidence |-> 500]

\* The (action_type, risk_level, confidence) branches of _decide_with_rules.
RuleBase(threat) ==
    IF threat.severity = "critical"
    THEN IF threat.threat_type = "reverse_shell"
         THEN [action_type |-> "terminate_pod", risk_level |-> "high", confidence |-> 900]
         ELSE [action_type |-> "isolate_pod", risk_level |-> "medium", confidence |-> 800]
    ELSE IF threat.severity = "high"
    THEN IF threat.threat_type \in {"reverse_shell", "container_escape"}
         THEN [action_type |-> "isolate_pod", risk_level |-> "medium", confidence |-> 750]
         ELSE [action_type |-> "alert", risk_level |-> "low", confidence |-> 700]
    ELSE IF threat.severity = "medium"
    THEN [action_type |-> "alert", risk_level |-> "low", confidence |-> 600]
    ELSE [action_type |-> "log", risk_level |-> "low", confidence |-> 500]

\* A boost without the clamp at 1.
RuleBoostUnclamped(confidence, ml_score) ==
    IF Truthy(ml_score) THEN confidence + 2 * ml_score[1] ELSE confidence

\* confidence = min(1.0, confidence + threat.ml_score * 0.2), in thousandths
RuleBoost(confidence, ml_score) ==
    IF Truthy(ml_score) THEN Min(1000, confidence + 2 * ml_score[1]) ELSE confidence

\* _decide_with_rules(threat); id: the identifier the new action gets.
_decide_with_rules(threat, id) ==
    LET base == RuleBase(threat)
    IN  [ RemediationAction(id, threat.id) EXCEPT
            !.action_type           = base.action_type,
            !.risk_level            = base.risk_level,
            !.confidence            = RuleBoost(base.confidence, threat.ml_score),
            !.ml_score              = threat.ml_score,
            !.requires_confirmation = RequiresConfirmation(base.risk_level) ]

\* confidence of _decide_with_rl: 0.7, or min(1.0, 0.7 + ml_score * 0.3)
RLConfidence(ml_score) ==
    IF Truthy(ml_score) THEN Min(1000, 700 + 3 * ml_score[1]) ELSE 700

\* A learned policy that rates every action type LOW but escalate.
RLRiskPodActionsLow(action_type, severity) ==
    IF action_type = "escalate" THEN "high" ELSE "low"

\* risk level of _decide_with_rl, from the action type and the severity
RLRisk(action_type, severity) ==
    IF action_type \in {"terminate_pod", "isolate_pod"}
    THEN IF severity = "critical" THEN "high" ELSE "medium"
    ELSE IF action_type = "escalate" THEN "high" ELSE "low"

\* _decide_with_rl(threat).  agent: what the agent does on this call, either
\* [raises |-> TRUE] (then the rules decide) or [raises |-> FALSE, action_int |-> n].
_decide_with_rl(threat, id, agent) ==
    IF agent.raises THEN _decide_with_rules(threat, id)
    ELSE LET action_type == _action_to_type(agent.action_int)
             risk_level  == RLRisk(action_type, threat.severity)
         IN  [ RemediationAction(id, threat.id) EXCEPT
                 !.action_type           = action_type,
                 !.risk_level            = risk_level,
                 !.confidence            = RLConfidence(threat.ml_score),
                 !.ml_score              = threat.ml_score,
                 !.requires_confirmation = RequiresConfirmation(risk_level) ]

\* decide_action(threat)
decide_action(threat, id, agent) ==
    IF use_rl_agent THEN _decide_with_rl(threat, id, agent)
    ELSE _decide_with_rules(threat, id)

\* --------------------------------------------------- RemediationService

\* threat.source_namespace or "default"
NamespaceOrDefault(threat) == PyOr(threat.source_namespace, Some("default"))[1]

\* A _terminate_pod without the simulated branch: it calls the client in any mode.
TerminatePodNoSimulation(pod_name, namespace, k8s_raises) ==
    [ success |-> ~k8s_raises,
      calls   |-> << [ op |-> "delete_namespaced_pod", name |-> pod_name,
                       namespace |-> namespace, grace_period_seconds |-> 0 ] >> ]

\* _terminate_pod(pod_name, namespace).  k8s_raises: the orchestrator call raises.
_terminate_pod(pod_name, namespace, k8s_raises) ==
    IF ~k8s_initialized THEN [success |-> TRUE, calls |-> <<>>]
    ELSE [ success |-> ~k8s_raises,
           calls   |-> << [ op |-> "delete_namespaced_pod", name |-> pod_name,
                            namespace |-> namespace, grace_period_seconds |-> 0 ] >> ]

\* _isolate_pod(pod_name, namespace)
_isolate_pod(pod_name, namespace, k8s_raises) ==
    IF ~k8s_initialized THEN [success |-> TRUE, calls |-> <<>>]
    ELSE [ success |-> ~k8s_raises,
           calls   |-> << [ op |-> "create_namespaced_network_policy", name |-> pod_name,
                            namespace |-> namespace ] >> ]

\* The dispatch on action.action_type.value inside the try of execute_action.  threat is
\* optional: every branch but the last reads an attribute of it, which raises on None.
Dispatch(action, threat, k8s_raises) ==
    IF action.action_type \in {"terminate_pod", "isolate_pod", "alert", "log"} /\ threat = None
    THEN [raised |-> TRUE, success |-> FALSE, calls |-> <<>>]
    ELSE IF action.action_type = "terminate_pod"
    THEN LET r == _terminate_pod(threat[1].source_pod, NamespaceOrDefault(threat[1]), k8s_raises)
         IN  [raised |-> FALSE, success |-> r.success, calls |-> r.calls]
    ELSE IF action.action_type = "isolate_pod"
    THEN LET r == _isolate_pod(threat[1].source_pod, NamespaceOrDefault(threat[1]), k8s_raises)
         IN  [raised |-> FALSE, success |-> r.success, calls |-> r.calls]
    ELSE [raised |-> FALSE, success |-> TRUE, calls |-> <<>>]

\* The requires_confirmation branch of execute_action.
ExecPending(action) == [action EXCEPT !.executed = FALSE, !.success = None]

\* The except branch of execute_action.
ExecFailed(action) ==
    [action EXCEPT !.executed = TRUE, !.success = Some(FALSE), !.error_message = Some("str(e)")]

\* The assignments after a dispatch that returned: executed and success.
ExecDone(action, success) ==
    [action EXCEPT !.executed = TRUE, !.success = Some(success)]

\* An execute_action that stores the action it holds back for confirmation.
ExecuteActionStoringPending(action, threat, k8s_raises, db_ok) ==
    LET a0 == [action EXCEPT !.executed_at = Some(now)]
        d  == Dispatch(a0, threat, k8s_raises)
        a1 == ExecDone(a0, d.success)
        a2 == IF threat = None THEN ExecFailed(a1) ELSE a1
    IN  IF a0.requires_confirmation
        THEN [ action |-> ExecPending(a0),
               mem |-> add_action_mem(_actions_db, db_actions, ExecPending(a0), db_ok),
               db |-> add_action_db(db_actions, ExecPending(a0), db_ok), calls |-> <<>> ]
        ELSE IF d.raised
        THEN [ action |-> ExecFailed(a0),
               mem |-> Alias(_actions_db, ExecFailed(a0)), db |-> db_actions, calls |-> d.calls ]
        ELSE [ action |-> a2,
               mem    |-> Alias(add_action_mem(_actions_db, db_actions, a1, db_ok), a2),
               db     |-> add_action_db(db_actions, a1, db_ok),
               calls  |-> d.calls ]

\* execute_action(action, threat): the action object as the call leaves it, the store
\* after it, and the orchestrator operations invoked.  The object appended to the
\* in-memory list is the caller's object; a database row is a copy.
execute_action(action, threat, k8s_raises, db_ok) ==
    LET a0 == [action EXCEPT !.executed_at = Some(now)]
        d  == Dispatch(a0, threat, k8s_raises)
        a1 == ExecDone(a0, d.success)
        \* the print after the store reads threat.id
        a2 == IF threat = None THEN ExecFailed(a1) ELSE a1
    IN  IF a0.requires_confirmation
        THEN [ action |-> ExecPending(a0),
               mem |-> Alias(_actions_db, ExecPending(a0)), db |-> db_actions, calls |-> <<>> ]
        ELSE IF d.raised
        THEN [ action |-> ExecFailed(a0),
               mem |-> Alias(_actions_db, ExecFailed(a0)), db |-> db_actions, calls |-> d.calls ]
        ELSE [ action |-> a2,
               mem    |-> Alias(add_action_mem(_actions_db, db_actions, a1, db_ok), a2),
               db     |-> add_action_db(db_actions, a1, db_ok),
               calls  |-> d.calls ]

\* ------------------------------------------------------------- envelopes

\* A JSON object with the top-level keys `keys`; the fields of absent keys are unused.
Envelope(keys, output, priority, rule, output_fields) ==
    [ is_mapping |-> TRUE, keys |-> keys, output |-> output, priority |-> priority,
      rule |-> rule, output_fields |-> output_fields ]

\* A JSON body whose top level is no object (a list, a string, a number).
NotAMapping ==
    [ is_mapping |-> FALSE, keys |-> {}, output |-> <<>>, priority |-> "",
      rule |-> <<>>, output_fields |-> NoFields ]

AllKeys == {"output", "priority", "rule", "output_fields"}

EmptyEnvelope == Envelope({}, <<>>, "", <<>>, NoFields)

EvilPodFields ==
    ("k8s.pod.name" :> "evil-pod") @@ ("k8s.ns.name" :> "default") @@
    ("container.name" :> "hacker") @@ ("user.name" :> "root")

TestPodFields == ("k8s.pod.name" :> "test-pod")

ProductionFields ==
    ("k8s.pod.name" :> "suspicious-pod") @@ ("k8s.namespace.name" :> "production") @@
    ("k8s.container.name" :> "app") @@ ("proc.user" :> "app-user")

REVERSE_SHELL_EVENT ==
    Envelope(AllKeys, REVERSE_SHELL_EVENT_output, "Critical", REVERSE_SHELL_EVENT_rule,
             EvilPodFields)

PRIVILEGE_ESCALATION_EVENT ==
    Envelope(AllKeys, PRIVILEGE_ESCALATION_EVENT_output, "Alert",
             PRIVILEGE_ESCALATION_EVENT_rule, ProductionFields)

NETWORK_ANOMALY_EVENT ==
    Envelope(AllKeys, NETWORK_ANOMALY_EVENT_output, "Warning", NETWORK_ANOMALY_EVENT_rule,
             TestPodFields)

CONTAINER_ESCAPE_EVENT ==
    Envelope(AllKeys, CONTAINER_ESCAPE_EVENT_output, "Critical",
             CONTAINER_ESCAPE_EVENT_rule, TestPodFields)

LOW_SEVERITY_EVENT ==
    Envelope(AllKeys, LOW_SEVERITY_EVENT_output, "Notice", LOW_SEVERITY_EVENT_rule,
             TestPodFields)

ETC_PASSWD_EVENT == Envelope(AllKeys, ETC_PASSWD_output, "Warning", ETC_PASSWD_rule, TestPodFields)

PORT_SCAN_EVENT == Envelope(AllKeys, PORT_SCAN_output, "Warning", PORT_SCAN_rule, TestPodFields)

SUDO_SU_EVENT == Envelope(AllKeys, SUDO_SU_output, "Alert", SUDO_SU_rule, TestPodFields)

SampleEvents ==
    { REVERSE_SHELL_EVENT, PRIVILEGE_ESCALATION_EVENT, NETWORK_ANOMALY_EVENT,
      CONTAINER_ESCAPE_EVENT, LOW_SEVERITY_EVENT, ETC_PASSWD_EVENT, PORT_SCAN_EVENT,
      SUDO_SU_EVENT }

\* Falco's priorities, a lower-case and an unknown one.
Priorities ==
    { "Emergency", "Alert", "Critical", "Error", "Warning", "Notice", "Informational",
      "Debug", "warning", "Fatal" }

\* Short texts: keywords of every type in mixed case, keyword prefixes that the joining
\* blank of output + " " + rule completes, and texts without any keyword.
Fragments ==
    {
       <<>>,
       <<"n","c">>,
       <<"s","u">>,
       <<"S","h","e","l","l">>,
       <<"S","U","D","O">>,
       <<"s","u","d","o"," ","s","h","e","l","l">>,
       <<"F","o","r","b","i","d","d","e","n">>,
       <<"v","i","r","u","s">>,
       <<"D","D","o","S">>,
       <<"s","e","c","r","e","t">>,
       <<"P","r","i","v","i","l","e","g","e","d">>,
       <<"h","e","l","l","o">>,
       <<"x"," ","n","c">>,
       <<"p","a","s","s","w","d">>,
       <<"n","c"," ","-","e"," ","/","b","i","n","/","s","h">>,
       <<"P","o","r","t"," ","S","c","a","n">>
    }

\* Envelopes built from the fragments: every priority, output and rule, each present or
\* absent.
FragmentEvents ==
    { Envelope({"output_fields"} \cup {"output" : x \in {o} \ {None}}
                                 \cup {"priority" : x \in {p} \ {None}}
                                 \cup {"rule" : x \in {r} \ {None}},
               IF o = None THEN <<>> ELSE o[1],
               IF p = None THEN "" ELSE p[1],
               IF r = None THEN <<>> ELSE r[1],
               TestPodFields) :
        o \in {None} \cup {Some(x) : x \in Fragments},
        p \in {None} \cup {Some(x) : x \in Priorities},
        r \in {None} \cup {Some(x) : x \in Fragments} }

NormalizerInputs == FragmentEvents \cup SampleEvents \cup {EmptyEnvelope, NotAMapping}

\* ------------------------------------------------------- call outcomes

Range(f) == { f[i] : i \in DOMAIN f }

\* Whether a database statement of this call succeeds; without a database none is issued.
DbOutcomes == IF USE_DATABASE THEN BOOLEAN ELSE {TRUE}

\* Whether the orchestrator call of this execution raises; without a client none is made.
K8sOutcomes == IF k8s_initialized THEN BOOLEAN ELSE {FALSE}

\* ------------------------------------------------- direct service calls
\* (the unit tests' harness: one service method called on a fresh process)

InitProcess ==
    /\ USE_DATABASE \in BOOLEAN
    /\ _threats_db = <<>>
    /\ _actions_db = <<>>
    /\ db_threats = <<>>
    /\ db_actions = <<>>
    /\ active_connections = <<>>
    /\ next_id = 1
    /\ now = 1
    /\ ret = None

\* await processor.process_event(event)
ProcessEventCall ==
    /\ arg # None
    /\ arg[1].op = "process_event"
    /\ \E db_ok \in DbOutcomes :
         LET pe == process_event(arg[1].event, db_ok)
         IN  /\ _threats_db' = pe.mem
             /\ db_threats' = pe.db
             /\ next_id' = IF pe.threat = None THEN next_id ELSE next_id + 1
             /\ ret' = Some([ op |-> "process_event", event |-> arg[1].event,
                              threat |-> pe.threat, broadcasts |-> pe.broadcasts ])
    /\ now' = now + 1
    /\ arg' = None
    /\ UNCHANGED << USE_DATABASE, _actions_db, db_actions, active_connections,
                    ml_initialized, use_rl_agent, k8s_initialized >>

InitNormalizer ==
    /\ InitProcess
    /\ ml_initialized = FALSE
    /\ use_rl_agent = FALSE
    /\ k8s_initialized = FALSE
    /\ \E event \in NormalizerInputs : arg = Some([op |-> "process_event", event |-> event])

NextNormalizer == ProcessEventCall

SpecNormalizer == InitNormalizer /\ [][NextNormalizer]_vars

\* ------------------------------------------- direct call: decide_action

\* Scores in percent: every value of [0, 1] to two decimals.
MlScores == 0..100

\* What the loaded agent does on a call: predict one of the 8 discrete actions, or raise.
AgentOutcomes ==
    {[raises |-> TRUE, action_int |-> 0]} \cup
    {[raises |-> FALSE, action_int |-> n] : n \in 0..7}

\* The threats the decider's tests build: ThreatEvent(severity=, threat_type=, ml_score=).
DeciderInputs ==
    { [ThreatEvent(1, 1) EXCEPT !.severity = sev, !.threat_type = tt, !.ml_score = ml] :
        sev \in ThreatSeverity, tt \in ThreatType,
        ml \in {None} \cup {Some(x) : x \in MlScores} }

\* await rl_service.decide_action(threat)
DecideActionCall ==
    /\ arg # None
    /\ arg[1].op = "decide_action"
    /\ \E agent \in IF use_rl_agent THEN AgentOutcomes ELSE {[raises |-> TRUE, action_int |-> 0]} :
         ret' = Some([ op |-> "decide_action", threat |-> arg[1].threat, agent |-> agent,
                       action |-> decide_action(arg[1].threat, next_id, agent) ])
    /\ next_id' = next_id + 1
    /\ arg' = None
    /\ UNCHANGED << USE_DATABASE, _threats_db, _actions_db, db_threats, db_actions,
                    active_connections, ml_initialized, use_rl_agent, k8s_initialized, now >>

InitDecider ==
    /\ InitProcess
    /\ ml_initialized = FALSE
    /\ use_rl_agent \in BOOLEAN
    /\ k8s_initialized = FALSE
    /\ \E threat \in DeciderInputs : arg = Some([op |-> "decide_action", threat |-> threat])

NextDecider == DecideActionCall

SpecDecider == InitDecider /\ [][NextDecider]_vars

\* ------------------------------------------ direct call: execute_action

\* The actions the actuator's tests build: RemediationAction(threat_id=, action_type=,
\* risk_level=, requires_confirmation=, confidence=), any combination of the fields.
ActuatorActions ==
    { [RemediationAction(2, 1) EXCEPT !.action_type = at, !.risk_level = rl,
                                      !.requires_confirmation = rc, !.confidence = 900] :
        at \in ActionType, rl \in RiskLevel, rc \in BOOLEAN }

\* The threat handed over with the action: a stored-looking one, with or without a pod,
\* or None.
ActuatorThreats ==
    { None,
      Some([ThreatEvent(1, 1) EXCEPT !.severity = "high", !.threat_type = "reverse_shell",
                                     !.source_pod = Some("test-pod"),
                                     !.source_namespace = Some("default")]),
      Some([ThreatEvent(1, 1) EXCEPT !.severity = "medium", !.threat_type = "network_anomaly"]) }

\* await remediation_service.execute_action(action, threat)
ExecuteActionCall ==
    /\ arg # None
    /\ arg[1].op = "execute_action"
    /\ \E k8s_raises \in K8sOutcomes, db_ok \in DbOutcomes :
         LET ex == execute_action(arg[1].action, arg[1].threat, k8s_raises, db_ok)
         IN  /\ _actions_db' = ex.mem
             /\ db_actions' = ex.db
             /\ ret' = Some([ op |-> "execute_action", given |-> arg[1].action,
                              threat |-> arg[1].threat, k8s_raises |-> k8s_raises,
                              action |-> ex.action, calls |-> ex.calls ])
    /\ now' = now + 1
    /\ arg' = None
    /\ UNCHANGED << USE_DATABASE, _threats_db, db_threats, active_connections,
                    ml_initialized, use_rl_agent, k8s_initialized, next_id >>

InitActuator ==
    /\ InitProcess
    /\ ml_initialized = FALSE
    /\ use_rl_agent = FALSE
    /\ k8s_initialized \in BOOLEAN
    /\ \E action \in ActuatorActions, threat \in ActuatorThreats :
         arg = Some([op |-> "execute_action", action |-> action, threat |-> threat])

NextActuator == ExecuteActionCall

SpecActuator == InitActuator /\ [][NextActuator]_vars

\* ------------------------------------------------------ the application
\* (app.main: the webhook, and the hub's endpoint)

\* The webhook stores at most this many threats.
MaxThreats == 1

NcBinSh == <<"n","c"," ","-","e"," ","/","b","i","n","/","s","h">>

PortScan == <<"P","o","r","t"," ","S","c","a","n">>

Hello == <<"h","e","l","l","o">>

Sudo == <<"S","U","D","O">>

\* The envelopes posted to the webhook: a reverse shell at priority Critical, a port
\* scan at Warning, a keyword-free Notice, privilege escalation at Alert, the empty object,
\* and a body that is no object.
WebhookEvents ==
    { Envelope(AllKeys, NcBinSh, "Critical", REVERSE_SHELL_EVENT_rule, EvilPodFields),
      Envelope(AllKeys, PortScan, "Warning", Hello, TestPodFields),
      Envelope(AllKeys, Hello, "Notice", Hello, TestPodFields),
      Envelope(AllKeys, Sudo, "Alert", Hello, ProductionFields),
      EmptyEnvelope,
      NotAMapping }

\* A request body: JSON (the parsed event) or not (request.json() raises).
WebhookBodies ==
    {[json_ok |-> FALSE, event |-> NotAMapping]} \cup
    {[json_ok |-> TRUE, event |-> e] : e \in WebhookEvents}

\* decision_function values (percent): one the clamp raises to 0, one above the thresholds.
DecisionScores == {-60, 26}

\* What the fitted model does on a call; without a model it is not consulted.
ModelOutcomes ==
    IF ml_initialized
    THEN {[raises |-> TRUE, decision_score |-> 0]} \cup
         {[raises |-> FALSE, decision_score |-> d] : d \in DecisionScores}
    ELSE {[raises |-> TRUE, decision_score |-> 0]}

\* A gate that executes every LOW-risk action, whatever its confidence.
AutoExecuteAnyLowRisk(action) == action.risk_level = "low"

\* A gate that lets a confidence of exactly 0.85 through.
AutoExecuteAtThreshold(action) == action.confidence >= 850 /\ action.risk_level = "low"

\* The handler's gate before execute_action:
\* action.confidence > 0.85 and action.risk_level == "low"
AutoExecute(action) == action.confidence > 850 /\ action.risk_level = "low"

\* A handler whose except clause lets the exception through.
Reraise(e) == [status |-> 0, response |-> [raised |-> e]]

\* The handler's except clause: JSONResponse({"error": str(e)}, status_code=500)
ErrorResponse(e) == [status |-> 500, response |-> [error |-> e]]

\* falco_webhook(request): the stores after the call, the identifiers it minted (the
\* clock is read once per pair) and the record of the call.  pe: what the handler's
\* call of process_event returned and did.
falco_webhook(body, pe, model, agent, k8s_raises, db_ok2) ==
    LET unchanged == [ threats_mem |-> _threats_db, threats_db |-> db_threats,
                       actions_mem |-> _actions_db, actions_db |-> db_actions ]
        nothing   == [ op |-> "falco_webhook", body |-> body, threat |-> None,
                       action |-> None, executed_call |-> FALSE,
                       broadcasts |-> <<>>, calls |-> <<>> ]
    IN
    IF ~body.json_ok
    THEN [ store |-> unchanged, minted |-> 0,
           call  |-> nothing @@ ErrorResponse("str(e)") ]
    ELSE
    IF pe.threat = None
    THEN [ store |-> unchanged, minted |-> 0,
           call  |-> nothing @@ [ status |-> 200,
                                  response |-> [status |-> "processed", threat |-> None] ] ]
    ELSE
    LET ml_score == detect_anomaly(pe.threat[1], model)
        threat   == [pe.threat[1] EXCEPT !.ml_score = Some(ml_score)]
        action   == decide_action(threat, next_id + 1, agent)
        run      == AutoExecute(action)
        ex       == execute_action(action, Some(threat), k8s_raises, db_ok2)
    IN  [ store  |-> [ threats_mem |-> Alias(pe.mem, threat),
                       threats_db  |-> pe.db,
                       actions_mem |-> IF run THEN ex.mem ELSE _actions_db,
                       actions_db  |-> IF run THEN ex.db ELSE db_actions ],
          minted |-> 2,
          call   |-> [ op |-> "falco_webhook", body |-> body, threat |-> Some(threat),
                       action |-> Some(IF run THEN ex.action ELSE action),
                       executed_call |-> run,
                       broadcasts |-> pe.broadcasts,
                       calls |-> IF run THEN ex.calls ELSE <<>>,
                       status |-> 200,
                       response |-> [ status |-> "processed", threat_id |-> threat.id,
                                      severity |-> threat.severity,
                                      action |-> action.action_type ] ] ]

\* The number of threats the store holds.
StoredThreats == Len(_threats_db) + Len(db_threats)

NoModel == [raises |-> TRUE, decision_score |-> 0]

NoAgent == [raises |-> TRUE, action_int |-> 0]

\* What the handler's call of process_event may return and do; the call is not reached
\* when request.json() raised.
ProcessEventOutcomes(body) ==
    IF body.json_ok
    THEN { process_event(body.event, db_ok) : db_ok \in DbOutcomes }
    ELSE { [threat |-> None, mem |-> _threats_db, db |-> db_threats, broadcasts |-> <<>>] }

\* What one call of the handler may do, process_event having done pe.
FalcoWebhookOutcomes(body, pe) ==
    IF pe.threat = None
    THEN { falco_webhook(body, pe, NoModel, NoAgent, FALSE, TRUE) }
    ELSE { falco_webhook(body, pe, model, agent, k8s_raises, db_ok2) :
             model \in ModelOutcomes,
             agent \in IF use_rl_agent THEN AgentOutcomes ELSE {NoAgent},
             k8s_raises \in K8sOutcomes,
             db_ok2 \in DbOutcomes }

\* POST /api/v1/falco/webhook
FalcoWebhook ==
    /\ arg = None
    /\ \E body \in WebhookBodies :
         /\ (body.json_ok /\ body.event.is_mapping) => StoredThreats < MaxThreats
         /\ \E pe \in ProcessEventOutcomes(body) :
              \E r \in FalcoWebhookOutcomes(body, pe) :
                  /\ _threats_db' = r.store.threats_mem
                  /\ db_threats' = r.store.threats_db
                  /\ _actions_db' = r.store.actions_mem
                  /\ db_actions' = r.store.actions_db
                  /\ next_id' = next_id + r.minted
                  /\ now' = now + r.minted \div 2
                  /\ ret' = Some(r.call)
    /\ UNCHANGED << USE_DATABASE, active_connections, ml_initialized, use_rl_agent,
                    k8s_initialized, arg >>

\* The websockets that may connect.
Sockets == {1}


\* WS /api/v1/stream: manager.connect(websocket)
Connect ==
    /\ arg = None
    /\ \E websocket \in Sockets \ Range(active_connections) :
         active_connections' = Append(active_connections, websocket)
    /\ UNCHANGED << USE_DATABASE, _threats_db, _actions_db, db_threats, db_actions,
                    ml_initialized, use_rl_agent, k8s_initialized, next_id, now, arg, ret >>

\* list.remove(x): the list without the first occurrence of x
Remove(list, x) ==
    LET i == CHOOSE i \in 1..Len(list) :
                 list[i] = x /\ \A j \in 1..(i - 1) : list[j] # x
    IN  SubSeq(list, 1, i - 1) \o SubSeq(list, i + 1, Len(list))

\* WS /api/v1/stream on WebSocketDisconnect: manager.disconnect(websocket)
Disconnect ==
    /\ arg = None
    /\ \E websocket \in Range(active_connections) :
         active_connections' = Remove(active_connections, websocket)
    /\ UNCHANGED << USE_DATABASE, _threats_db, _actions_db, db_threats, db_actions,
                    ml_initialized, use_rl_agent, k8s_initialized, next_id, now, arg, ret >>

\* The process after start-up: storage chose its backing, the services initialized;
\* main never initializes the RemediationService, which stays in simulated mode.
Init ==
    /\ InitProcess
    /\ ml_initialized \in BOOLEAN
    /\ use_rl_agent \in BOOLEAN
    /\ k8s_initialized = FALSE
    /\ arg = None

Next == FalcoWebhook \/ Connect \/ Disconnect

Spec == Init /\ [][Next]_vars

\* ================================================= storage and the read API

\* The store holds at most this many threat entries (rows and list entries together).
MaxEntries == 2

\* The first entry carrying `id`, or None.
Find(list, id) ==
    IF \E i \in 1..Len(list) : list[i].id = id
    THEN Some(list[CHOOSE i \in 1..Len(list) :
                     list[i].id = id /\ \A j \in 1..(i - 1) : list[j].id # id])
    ELSE None

\* GET /api/v1/threats?severity=&threat_type=&resolved=&limit=
\* (a filter is None when the query parameter is absent)
list_threats(severity, threat_type, resolved, limit, db_ok) ==
    LET threats == get_threats_db(db_ok)
        BySeverity(t) == severity = None \/ t.severity = severity[1]
        ByType(t) == threat_type = None \/ t.threat_type = threat_type[1]
        ByResolved(t) == resolved = None \/ t.resolved = resolved[1]
        Keep(t) == BySeverity(t) /\ ByType(t) /\ ByResolved(t)
    IN  Truncate(SelectSeq(threats, Keep), limit)

\* A path parameter that is no UUID: UUID(threat_id) raises ValueError on it, outside
\* any try, and the framework answers 500.
NotAUuid == 0

\* The ids a request may name: those of the stored threats and actions, one that was
\* never minted, and a string that is no UUID.
PathIds ==
    {NotAUuid, next_id}
        \cup {_threats_db[i].id : i \in 1..Len(_threats_db)}
        \cup {db_threats[i].id : i \in 1..Len(db_threats)}
        \cup {_actions_db[i].id : i \in 1..Len(_actions_db)}
        \cup {db_actions[i].id : i \in 1..Len(db_actions)}

\* GET /api/v1/threats/{threat_id}
get_threat(threat_id, db_ok) ==
    LET found == Find(get_threats_db(db_ok), threat_id)
    IN  IF threat_id = NotAUuid
        THEN [status |-> 500, threat |-> None, detail |-> Some("Internal Server Error")]
        ELSE IF found # None
        THEN [status |-> 200, threat |-> found, detail |-> None]
        ELSE [status |-> 404, threat |-> None, detail |-> Some("Threat not found")]

\* A resolve that stamps the row's detected_at with the time of resolution.
ResolveRowRestamped(table, id, at) ==
    [i \in 1..Len(table) |->
        IF table[i].id = id
        THEN [table[i] EXCEPT !.resolved = TRUE, !.resolved_at = Some(at),
                              !.detected_at = at]
        ELSE table[i]]

\* The table with the row carrying `id` marked resolved at time `at`.
ResolveRow(table, id, at) ==
    [i \in 1..Len(table) |->
        IF table[i].id = id
        THEN [table[i] EXCEPT !.resolved = TRUE, !.resolved_at = Some(at)]
        ELSE table[i]]

\* POST /api/v1/threats/{threat_id}/resolve
\* query_ok: the handler's own query runs; list_ok: the fallback's get_threats_db()
\* query runs; insert_ok: the fallback's add_threat() insert runs.
resolve_threat(threat_id, query_ok, list_ok, insert_ok) ==
    LET unchanged(status, response) ==
            [ mem |-> _threats_db, db |-> db_threats, status |-> status,
              response |-> response ]
        resolved_response == [status |-> "resolved", threat_id |-> threat_id]
        threats == get_threats_db(list_ok)
        found == Find(threats, threat_id)
        threat == [found[1] EXCEPT !.resolved = TRUE, !.resolved_at = Some(now)]
        listed == IF USE_DATABASE /\ list_ok THEN _threats_db
                  ELSE Alias(_threats_db, threat)
    IN  IF threat_id = NotAUuid \/ (USE_DATABASE /\ ~query_ok)
        THEN unchanged(500, [detail |-> "Internal Server Error"])
        ELSE IF USE_DATABASE /\ Find(db_threats, threat_id) # None
        THEN [ mem |-> _threats_db, db |-> ResolveRow(db_threats, threat_id, now),
               status |-> 200, response |-> resolved_response ]
        ELSE IF found # None
        THEN [ mem |-> add_threat_mem(listed, db_threats, threat, insert_ok),
               db |-> add_threat_db(db_threats, threat, insert_ok),
               status |-> 200, response |-> resolved_response ]
        ELSE unchanged(404, [detail |-> "Threat not found"])

\* A simulate endpoint that runs the webhook's whole pipeline on the body.
SimulateAsWebhook(body, db_ok) ==
    LET pe == IF body.json_ok THEN process_event(body.event, db_ok)
              ELSE [threat |-> None, mem |-> _threats_db, db |-> db_threats,
                    broadcasts |-> <<>>]
        r  == falco_webhook(body, pe, NoModel, NoAgent, FALSE, db_ok)
    IN  [ threat |-> r.call.threat, mem |-> r.store.threats_mem,
          db |-> r.store.threats_db, actions_mem |-> r.store.actions_mem,
          actions_db |-> r.store.actions_db, broadcasts |-> r.call.broadcasts,
          calls |-> r.call.calls, status |-> r.call.status,
          response |-> [ status |-> "processed",
                         threat_id |-> IF r.call.threat = None THEN None
                                       ELSE Some(r.call.threat[1].id) ] ]

\* POST /api/v1/simulate: process_event on the body and nothing else; the call leaves
\* the action store as it was and invokes no orchestrator operation.
simulate(body, db_ok) ==
    IF ~body.json_ok
    THEN [ threat |-> None, mem |-> _threats_db, db |-> db_threats,
           actions_mem |-> _actions_db, actions_db |-> db_actions, broadcasts |-> <<>>,
           calls |-> <<>>, status |-> 500, response |-> [error |-> "str(e)"] ]
    ELSE LET pe == process_event(body.event, db_ok)
         IN  [ threat |-> pe.threat, mem |-> pe.mem, db |-> pe.db,
               actions_mem |-> _actions_db, actions_db |-> db_actions,
               broadcasts |-> pe.broadcasts, calls |-> <<>>, status |-> 200,
               response |-> [ status |-> "processed",
                              threat_id |-> IF pe.threat = None THEN None
                                            ELSE Some(pe.threat[1].id) ] ]

\* The ids the store has seen.
KnownThreatIds == {_threats_db[i].id : i \in 1..Len(_threats_db)}
                      \cup {db_threats[i].id : i \in 1..Len(db_threats)}

\* The object a caller still holds for a record it added: the list's entry (the same
\* object) when the list has it, else the object as it was handed to the table.
HeldObject(id) ==
    IF Find(_threats_db, id) # None THEN Find(_threats_db, id)[1]
    ELSE [Find(db_threats, id)[1] EXCEPT !.resolved = FALSE, !.resolved_at = None]

\* threats_db.append(threat) / add_threat(threat) of a new record
AddThreat ==
    /\ StoredThreats < MaxEntries
    /\ \E db_ok \in DbOutcomes :
         LET threat == ThreatEvent(next_id, now)
         IN  /\ _threats_db' = add_threat_mem(_threats_db, db_threats, threat, db_ok)
             /\ db_threats' = add_threat_db(db_threats, threat, db_ok)
             /\ ret' = Some([op |-> "add_threat", threat |-> threat, again |-> FALSE])
    /\ next_id' = next_id + 1
    /\ now' = now + 1
    /\ UNCHANGED << USE_DATABASE, _actions_db, db_actions, active_connections,
                    ml_initialized, use_rl_agent, k8s_initialized, arg >>

\* add_threat(threat) of a record that was added before
AddThreatAgain ==
    /\ StoredThreats < MaxEntries
    /\ \E id \in KnownThreatIds, db_ok \in DbOutcomes :
         LET threat == HeldObject(id)
         IN  /\ _threats_db' = add_threat_mem(_threats_db, db_threats, threat, db_ok)
             /\ db_threats' = add_threat_db(db_threats, threat, db_ok)
             /\ ret' = Some([op |-> "add_threat", threat |-> threat, again |-> TRUE])
    /\ UNCHANGED << USE_DATABASE, _actions_db, db_actions, active_connections,
                    ml_initialized, use_rl_agent, k8s_initialized, next_id, now, arg >>

\* The query parameters the read API is called with.
ResolvedFilters == {None, Some(TRUE), Some(FALSE)}

Limits == {1, 100}

\* What one call of GET /api/v1/threats may answer.
ListThreatsOutcomes ==
    { [ op |-> "list_threats", resolved |-> resolved, limit |-> limit,
        result |-> list_threats(None, None, resolved, limit, db_ok) ] :
      resolved \in ResolvedFilters, limit \in Limits, db_ok \in DbOutcomes }

\* GET /api/v1/threats
ListThreats ==
    /\ \E r \in ListThreatsOutcomes : ret' = Some(r)
    /\ UNCHANGED << USE_DATABASE, _threats_db, _actions_db, db_threats, db_actions,
                    active_connections, ml_initialized, use_rl_agent, k8s_initialized,
                    next_id, now, arg >>

\* What one call of GET /api/v1/threats/{threat_id} may answer.
GetThreatOutcomes ==
    { [ op |-> "get_threat", threat_id |-> threat_id,
        answer |-> get_threat(threat_id, db_ok) ] :
      threat_id \in PathIds, db_ok \in DbOutcomes }

\* GET /api/v1/threats/{threat_id}
GetThreat ==
    /\ \E r \in GetThreatOutcomes : ret' = Some(r)
    /\ UNCHANGED << USE_DATABASE, _threats_db, _actions_db, db_threats, db_actions,
                    active_connections, ml_initialized, use_rl_agent, k8s_initialized,
                    next_id, now, arg >>

\* What one call of POST /api/v1/threats/{threat_id}/resolve may do.
ResolveThreatOutcomes ==
    { [ op |-> "resolve_threat", threat_id |-> threat_id, before |-> StoredThreats,
        done |-> resolve_threat(threat_id, query_ok, list_ok, insert_ok) ] :
      threat_id \in PathIds, query_ok \in DbOutcomes, list_ok \in DbOutcomes,
      insert_ok \in DbOutcomes }

\* POST /api/v1/threats/{threat_id}/resolve
ResolveThreat ==
    /\ \E r \in ResolveThreatOutcomes :
         /\ Len(r.done.mem) + Len(r.done.db) <= MaxEntries
         /\ _threats_db' = r.done.mem
         /\ db_threats' = r.done.db
         /\ ret' = Some([ op |-> r.op, threat_id |-> r.threat_id, before |-> r.before,
                          status |-> r.done.status, response |-> r.done.response ])
    /\ UNCHANGED << USE_DATABASE, _actions_db, db_actions, active_connections,
                    ml_initialized, use_rl_agent, k8s_initialized, next_id, now, arg >>

\* The bodies posted to the simulate endpoint: a reverse shell, a body that is no
\* object, and a body that is no JSON.
SimulateBodies ==
    { [json_ok |-> TRUE,
       event |-> Envelope(AllKeys, NcBinSh, "Critical", REVERSE_SHELL_EVENT_rule,
                          EvilPodFields)],
      [json_ok |-> TRUE, event |-> NotAMapping],
      [json_ok |-> FALSE, event |-> NotAMapping] }

\* What one call of POST /api/v1/simulate may do.
SimulateOutcomes ==
    { [body |-> body, done |-> simulate(body, db_ok)] :
      body \in SimulateBodies, db_ok \in DbOutcomes }

\* POST /api/v1/simulate
Simulate ==
    /\ \E r \in SimulateOutcomes :
         LET minted == IF r.done.threat = None THEN 0 ELSE 1
         IN  /\ Len(r.done.mem) + Len(r.done.db) <= MaxEntries
             /\ _threats_db' = r.done.mem
             /\ db_threats' = r.done.db
             /\ _actions_db' = r.done.actions_mem
             /\ db_actions' = r.done.actions_db
             /\ next_id' = next_id + minted
             /\ now' = now + minted
             /\ ret' = Some([ op |-> "simulate", body |-> r.body,
                              threat |-> r.done.threat,
                              broadcasts |-> r.done.broadcasts, calls |-> r.done.calls,
                              status |-> r.done.status, response |-> r.done.response,
                              actions_before |-> << _actions_db, db_actions >> ])
    /\ UNCHANGED << USE_DATABASE, active_connections, ml_initialized, use_rl_agent,
                    k8s_initialized, arg >>

\* GET /api/v1/explain/{threat_id}: the lookup of get_threat, answered with a text built
\* from the record.
explain_threat(threat_id, db_ok) ==
    LET found == Find(get_threats_db(db_ok), threat_id)
    IN  IF threat_id = NotAUuid
        THEN [status |-> 500, explanation |-> None]
        ELSE IF found # None
        THEN [ status |-> 200,
               explanation |-> Some([ threat_id |-> found[1].id,
                                      details |-> found[1].description,
                                      severity |-> found[1].severity,
                                      detected_at |-> found[1].detected_at ]) ]
        ELSE [status |-> 404, explanation |-> None]

\* GET /api/v1/explain/{threat_id}
ExplainThreat ==
    /\ \E r \in { [ op |-> "explain_threat", threat_id |-> threat_id,
                     answer |-> explain_threat(threat_id, db_ok) ] :
                   threat_id \in PathIds, db_ok \in DbOutcomes } : ret' = Some(r)
    /\ UNCHANGED << USE_DATABASE, _threats_db, _actions_db, db_threats, db_actions,
                    active_connections, ml_initialized, use_rl_agent, k8s_initialized,
                    next_id, now, arg >>

\* POST /api/v1/falco/webhook on the store at hand, with the bodies of the simulate calls
IngestWebhook ==
    /\ StoredThreats < MaxEntries
    /\ \E body \in SimulateBodies :
         \E pe \in ProcessEventOutcomes(body) :
           \E r \in FalcoWebhookOutcomes(body, pe) :
               /\ _threats_db' = r.store.threats_mem
               /\ db_threats' = r.store.threats_db
               /\ _actions_db' = r.store.actions_mem
               /\ db_actions' = r.store.actions_db
               /\ next_id' = next_id + r.minted
               /\ now' = now + r.minted \div 2
               /\ ret' = Some([ op |-> "falco_webhook", status |-> r.call.status,
                                response |-> r.call.response ])
    /\ UNCHANGED << USE_DATABASE, active_connections, ml_initialized, use_rl_agent,
                    k8s_initialized, arg >>

\* The process serving the storage functions and the read API.
InitStore ==
    /\ InitProcess
    /\ ml_initialized = FALSE
    /\ use_rl_agent = FALSE
    /\ k8s_initialized = FALSE
    /\ arg = None

NextStore ==
    \/ AddThreat
    \/ AddThreatAgain
    \/ ListThreats
    \/ GetThreat
    \/ ResolveThreat
    \/ Simulate

SpecStore == InitStore /\ [][NextStore]_vars

\* The calls of the HTTP API that touch the threats, on a fresh process.
NextLifecycle ==
    \/ IngestWebhook
    \/ Simulate
    \/ ResolveThreat
    \/ ListThreats
    \/ GetThreat
    \/ ExplainThreat

SpecLifecycle == InitStore /\ [][NextLifecycle]_vars

\* ================================================= the webhook, stage by stage

\* The webhook calls in flight at once.
MaxCalls == 2

Calls == 1..MaxCalls

\* The bodies posted by the concurrent callers: a sudo of priority Alert, which the
\* table policy answers with an action the gate lets through, a reverse shell, a body
\* that is no object and a body that is no JSON.
PipelineBodies ==
    { [json_ok |-> TRUE,
       event |-> Envelope(AllKeys, Sudo, "Alert", Hello, ProductionFields)],
      [json_ok |-> TRUE,
       event |-> Envelope(AllKeys, NcBinSh, "Critical", REVERSE_SHELL_EVENT_rule,
                          EvilPodFields)],
      [json_ok |-> TRUE, event |-> NotAMapping],
      [json_ok |-> FALSE, event |-> NotAMapping] }

\* A webhook call that has not read its request yet.
NewFrame ==
    [ pc |-> "request", body |-> None, threat |-> None, action |-> None,
      broadcasts |-> <<>>, actuated |-> None, response |-> None ]

\* A handler whose process_event broadcasts the threat before it stores it.
StageAfterBroadcastFirst(stage) ==
    CASE stage = "normalizer" -> "broadcast"
      [] stage = "broadcast"  -> "store"
      [] stage = "store"      -> "scorer"
      [] stage = "scorer"     -> "decider"
      [] stage = "decider"    -> "actuator"
      [] stage = "actuator"   -> "response"

\* The statement order of process_event and falco_webhook: the stage a call enters when
\* the given stage has returned a threat or an action.
StageAfter(stage) ==
    CASE stage = "normalizer" -> "store"
      [] stage = "store"      -> "broadcast"
      [] stage = "broadcast"  -> "scorer"
      [] stage = "scorer"     -> "decider"
      [] stage = "decider"    -> "actuator"
      [] stage = "actuator"   -> "response"

\* The frame of call c is replaced.
Resume(c, frame) == arg' = [arg EXCEPT ![c] = frame]

\* The handlers are coroutines on one event loop.  A call gives up the loop only where
\* an await suspends: in request.json() and in the send_json of manager.broadcast; the
\* awaits of detect_anomaly, decide_action and execute_action run through without one.
Suspended(d) == arg[d].pc \in {"request", "broadcast", "done"}

\* Call c may take a step: no other call is between two suspension points.
HasLoop(c) == \A d \in Calls \ {c} : Suspended(d)

\* event = await request.json()
\* The calls are numbered in the order in which their requests are read.
ReadRequest(c) ==
    /\ arg[c].pc = "request"
    /\ HasLoop(c)
    /\ \A d \in 1..(c - 1) : arg[d].pc # "request"
    /\ \E body \in PipelineBodies :
         Resume(c, IF body.json_ok
                   THEN [arg[c] EXCEPT !.pc = "normalizer", !.body = Some(body)]
                   ELSE [arg[c] EXCEPT !.pc = "done", !.body = Some(body),
                                       !.response = Some(ErrorResponse("str(e)"))])
    /\ UNCHANGED << USE_DATABASE, _threats_db, _actions_db, db_threats, db_actions,
                    active_connections, ml_initialized, use_rl_agent, k8s_initialized,
                    next_id, now, ret >>

\* process_event, up to the constructed ThreatEvent; a body that is no mapping raises
\* inside the try and the call returns None.
Normalize(c) ==
    /\ arg[c].pc = "normalizer"
    /\ HasLoop(c)
    /\ IF arg[c].body[1].event.is_mapping
       THEN /\ Resume(c, [arg[c] EXCEPT
                            !.pc = StageAfter("normalizer"),
                            !.threat = Some(NormalizedThreat(arg[c].body[1].event,
                                                             next_id, now))])
            /\ next_id' = next_id + 1
            /\ now' = now + 1
       ELSE /\ Resume(c, [arg[c] EXCEPT !.pc = "response"])
            /\ UNCHANGED << next_id, now >>
    /\ UNCHANGED << USE_DATABASE, _threats_db, _actions_db, db_threats, db_actions,
                    active_connections, ml_initialized, use_rl_agent, k8s_initialized,
                    ret >>

\* threats_db.append(threat)
StoreThreat(c) ==
    /\ arg[c].pc = "store"
    /\ HasLoop(c)
    /\ \E db_ok \in DbOutcomes :
         /\ _threats_db' = add_threat_mem(_threats_db, db_threats, arg[c].threat[1], db_ok)
         /\ db_threats' = add_threat_db(db_threats, arg[c].threat[1], db_ok)
    /\ Resume(c, [arg[c] EXCEPT !.pc = StageAfter("store")])
    /\ UNCHANGED << USE_DATABASE, _actions_db, db_actions, active_connections,
                    ml_initialized, use_rl_agent, k8s_initialized, next_id, now, ret >>

\* await manager.broadcast({...})
BroadcastThreat(c) ==
    /\ arg[c].pc = "broadcast"
    /\ HasLoop(c)
    /\ Resume(c, [arg[c] EXCEPT
                    !.pc = StageAfter("broadcast"),
                    !.broadcasts = << broadcast(ThreatMessage(arg[c].threat[1])) >>])
    /\ UNCHANGED << USE_DATABASE, _threats_db, _actions_db, db_threats, db_actions,
                    active_connections, ml_initialized, use_rl_agent, k8s_initialized,
                    next_id, now, ret >>

\* ml_score = await ml_service.detect_anomaly(threat); threat.ml_score = ml_score
\* The assignment is to the object the in-memory list holds.
ScoreThreat(c) ==
    /\ arg[c].pc = "scorer"
    /\ HasLoop(c)
    /\ \E ml_score \in {detect_anomaly(arg[c].threat[1], model) : model \in ModelOutcomes} :
         LET threat == [arg[c].threat[1] EXCEPT !.ml_score = Some(ml_score)]
         IN  /\ _threats_db' = Alias(_threats_db, threat)
             /\ Resume(c, [arg[c] EXCEPT !.pc = StageAfter("scorer"),
                                         !.threat = Some(threat)])
    /\ UNCHANGED << USE_DATABASE, _actions_db, db_threats, db_actions,
                    active_connections, ml_initialized, use_rl_agent, k8s_initialized,
                    next_id, now, ret >>

\* action = await rl_service.decide_action(threat)
\* The action's uuid4 is fresh among the actions: the number of the threat it answers.
DecideAction(c) ==
    /\ arg[c].pc = "decider"
    /\ HasLoop(c)
    /\ \E action \in { decide_action(arg[c].threat[1], arg[c].threat[1].id, agent) :
                         agent \in IF use_rl_agent THEN AgentOutcomes ELSE {NoAgent} } :
         Resume(c, [arg[c] EXCEPT !.pc = StageAfter("decider"), !.action = Some(action)])
    /\ UNCHANGED << USE_DATABASE, _threats_db, _actions_db, db_threats, db_actions,
                    active_connections, ml_initialized, use_rl_agent, k8s_initialized,
                    next_id, now, ret >>

\* The gate and await remediation_service.execute_action(action, threat): the action is
\* executed, or the handler declines and at most logs that it needs confirmation.
Actuate(c) ==
    /\ arg[c].pc = "actuator"
    /\ HasLoop(c)
    /\ IF AutoExecute(arg[c].action[1])
       THEN \E ex \in { execute_action(arg[c].action[1], arg[c].threat, k8s_raises, db_ok) :
                          k8s_raises \in K8sOutcomes, db_ok \in DbOutcomes } :
              /\ _actions_db' = ex.mem
              /\ db_actions' = ex.db
              /\ Resume(c, [arg[c] EXCEPT !.pc = StageAfter("actuator"),
                                          !.action = Some(ex.action),
                                          !.actuated = Some("executed")])
       ELSE /\ Resume(c, [arg[c] EXCEPT !.pc = StageAfter("actuator"),
                                        !.actuated = Some("declined")])
            /\ UNCHANGED << _actions_db, db_actions >>
    /\ UNCHANGED << USE_DATABASE, _threats_db, db_threats, active_connections,
                    ml_initialized, use_rl_agent, k8s_initialized, next_id, now, ret >>

\* return JSONResponse({...})
Respond(c) ==
    /\ arg[c].pc = "response"
    /\ HasLoop(c)
    /\ Resume(c, [arg[c] EXCEPT
         !.pc = "done",
         !.response = Some(
            IF arg[c].threat = None
            THEN [ status |-> 200, response |-> [status |-> "processed", threat |-> None] ]
            ELSE [ status |-> 200,
                   response |-> [ status |-> "processed",
                                  threat_id |-> arg[c].threat[1].id,
                                  severity |-> arg[c].threat[1].severity,
                                  action |-> arg[c].action[1].action_type ] ])])
    /\ UNCHANGED << USE_DATABASE, _threats_db, _actions_db, db_threats, db_actions,
                    active_connections, ml_initialized, use_rl_agent, k8s_initialized,
                    next_id, now, ret >>

\* GET /api/v1/threats while webhook calls are in flight: the whole list, once.
ListDuringIngestion ==
    /\ ret = None
    /\ \A c \in Calls : Suspended(c)
    /\ \E c \in Calls : arg[c].pc # "done"
    /\ \E result \in { list_threats(None, None, None, 100, db_ok) : db_ok \in DbOutcomes } :
         ret' = Some([ op |-> "list_threats", result |-> result,
                       in_flight |-> {c \in Calls : arg[c].pc \notin {"request", "done"}} ])
    /\ UNCHANGED << USE_DATABASE, _threats_db, _actions_db, db_threats, db_actions,
                    active_connections, ml_initialized, use_rl_agent, k8s_initialized,
                    next_id, now, arg >>

\* A fresh process with one stream client and MaxCalls webhook calls arriving.
InitPipeline ==
    /\ USE_DATABASE \in BOOLEAN
    /\ _threats_db = <<>>
    /\ _actions_db = <<>>
    /\ db_threats = <<>>
    /\ db_actions = <<>>
    /\ active_connections = << 1 >>
    /\ ml_initialized = FALSE
    /\ use_rl_agent = FALSE
    /\ k8s_initialized = FALSE
    /\ next_id = 1
    /\ now = 1
    /\ arg = [c \in Calls |-> NewFrame]
    /\ ret = None

NextPipeline ==
    \/ \E c \in Calls : ReadRequest(c)
    \/ \E c \in Calls : Normalize(c)
    \/ \E c \in Calls : StoreThreat(c)
    \/ \E c \in Calls : BroadcastThreat(c)
    \/ \E c \in Calls : ScoreThreat(c)
    \/ \E c \in Calls : DecideAction(c)
    \/ \E c \in Calls : Actuate(c)
    \/ \E c \in Calls : Respond(c)
    \/ ListDuringIngestion

SpecPipeline == InitPipeline /\ [][NextPipeline]_vars

\* ================================================= start-up of the application

\* What the host offers the process: scikit-learn, the USE_RL_AGENT setting, a trained
\* agent that loads, and a kubeconfig that loads (the orchestrator is reachable).
Hosts ==
    [ sklearn : BOOLEAN, USE_RL_AGENT : BOOLEAN, rl_model : BOOLEAN,
      kube_config : BOOLEAN ]

\* RemediationService.initialize(): the value of self.initialized it leaves.
remediation_initialize(host) == host.kube_config

\* RemediationService.health_check()
remediation_health_check ==
    [ status |-> IF k8s_initialized THEN "healthy" ELSE "degraded",
      k8s_available |-> k8s_initialized ]

\* startup_event(): ml_service, rl_service and llm_service are initialized;
\* remediation_service is constructed at import and its initialize() is not called.
StartupEvent ==
    /\ arg # None
    /\ arg[1].phase = "constructed"
    /\ ml_initialized' = arg[1].host.sklearn
    /\ use_rl_agent' = (arg[1].host.USE_RL_AGENT /\ arg[1].host.rl_model)
    /\ arg' = Some([arg[1] EXCEPT !.phase = "serving"])
    /\ UNCHANGED << USE_DATABASE, _threats_db, _actions_db, db_threats, db_actions,
                    active_connections, k8s_initialized, next_id, now, ret >>

\* GET /health, once the application serves
Health ==
    /\ arg # None
    /\ arg[1].phase = "serving"
    /\ ret' = Some([ op |-> "health", status |-> "healthy",
                     remediation |-> remediation_health_check ])
    /\ UNCHANGED << USE_DATABASE, _threats_db, _actions_db, db_threats, db_actions,
                    active_connections, ml_initialized, use_rl_agent, k8s_initialized,
                    next_id, now, arg >>

\* POST /api/v1/falco/webhook, once the application serves
ServeWebhook ==
    /\ arg # None
    /\ arg[1].phase = "serving"
    /\ \E body \in WebhookBodies :
         /\ (body.json_ok /\ body.event.is_mapping) => StoredThreats < MaxThreats
         /\ \E pe \in ProcessEventOutcomes(body) :
              \E r \in FalcoWebhookOutcomes(body, pe) :
                  /\ _threats_db' = r.store.threats_mem
                  /\ db_threats' = r.store.threats_db
                  /\ _actions_db' = r.store.actions_mem
                  /\ db_actions' = r.store.actions_db
                  /\ next_id' = next_id + r.minted
                  /\ now' = now + r.minted \div 2
                  /\ ret' = Some(r.call)
    /\ UNCHANGED << USE_DATABASE, active_connections, ml_initialized, use_rl_agent,
                    k8s_initialized, arg >>

\* The module has been imported on some host: the services are constructed, none is
\* initialized, use_rl_agent is the environment's setting.
InitStartup ==
    /\ InitProcess
    /\ ml_initialized = FALSE
    /\ k8s_initialized = FALSE
    /\ \E host \in Hosts :
         /\ use_rl_agent = host.USE_RL_AGENT
         /\ arg = Some([op |-> "app", phase |-> "constructed", host |-> host])

NextStartup == StartupEvent \/ Health \/ ServeWebhook

SpecStartup == InitStartup /\ [][NextStartup]_vars

\* ======================================================== claims: Normalizer

\* The completed process_event call, if the last call was one that returned a threat.
NormalizedCall == ret # None /\ ret[1].op = "process_event" /\ ret[1].threat # None

\* The priority the envelope carries: Some(string), or None when the key is absent.
PriorityOf(event) == IF "priority" \in event.keys THEN Some(event.priority) ELSE None

\* C8: the priority-to-severity mapping is total: Emergency gives CRITICAL; Alert and
\* Critical give HIGH; Error and Warning give MEDIUM; Notice, Informational and Debug
\* give LOW; every other priority string, and an absent priority, gives LOW; the
\* severity is always one of LOW, MEDIUM, HIGH, CRITICAL.
C8_PriorityMappingTotal ==
    NormalizedCall =>
        LET p   == PriorityOf(ret[1].event)
            sev == ret[1].threat[1].severity
        IN  /\ sev \in {"low", "medium", "high", "critical"}
            /\ p = Some("Emergency") => sev = "critical"
            /\ p \in {Some("Alert"), Some("Critical")} => sev = "high"
            /\ p \in {Some("Error"), Some("Warning")} => sev = "medium"
            /\ p \in {Some("Notice"), Some("Informational"), Some("Debug")} => sev = "low"
            /\ p \notin { Some("Emergency"), Some("Alert"), Some("Critical"), Some("Error"),
                          Some("Warning") } => sev = "low"

\* C8 witness: an envelope with a priority outside the table was normalized to LOW.
C8_Witness ==
    /\ NormalizedCall
    /\ PriorityOf(ret[1].event) = Some("Fatal")
    /\ ret[1].threat[1].severity = "low"

\* The text the detection searches: output + " " + rule, lowercased, with the defaults
\* of absent keys.
SearchedText(event) ==
    Lower(EventGet(event, "output", <<>>)) \o <<" ">> \o Lower(EventGet(event, "rule", RuleDefault))

\* The keywords declared for a threat type.
KeywordsOf(threat_type) ==
    LET i == CHOOSE i \in 1..Len(THREAT_KEYWORDS) : THREAT_KEYWORDS[i].threat_type = threat_type
    IN  THREAT_KEYWORDS[i].keywords

\* Some keyword of the type occurs in the text.
Mentions(text, threat_type) ==
    \E k \in 1..Len(KeywordsOf(threat_type)) : Contains(text, KeywordsOf(threat_type)[k])

\* C9: threat-type detection returns the first type, in the declaration order
\* REVERSE_SHELL, PRIVILEGE_ESCALATION, UNAUTHORIZED_ACCESS, MALICIOUS_PROCESS,
\* NETWORK_ANOMALY, FILE_ANOMALY, CONTAINER_ESCAPE, one of whose keywords occurs
\* case-insensitively in output + " " + rule, and UNKNOWN when none occurs.
C9_FirstMatchWins ==
    NormalizedCall =>
        LET text == SearchedText(ret[1].event)
            t    == ret[1].threat[1].threat_type
        IN  \/ /\ t = "unknown"
               /\ \A j \in 1..7 : ~Mentions(text, ThreatTypeOrder[j])
            \/ \E i \in 1..7 :
                 /\ t = ThreatTypeOrder[i]
                 /\ Mentions(text, ThreatTypeOrder[i])
                 /\ \A j \in 1..(i - 1) : ~Mentions(text, ThreatTypeOrder[j])

\* C9 witness: a text with keywords of REVERSE_SHELL and of PRIVILEGE_ESCALATION, in
\* upper case, was classified REVERSE_SHELL.
C9_Witness ==
    /\ NormalizedCall
    /\ Mentions(SearchedText(ret[1].event), "reverse_shell")
    /\ Mentions(SearchedText(ret[1].event), "privilege_escalation")
    /\ \E i \in 1..Len(ret[1].event.output) : ret[1].event.output[i] \in Range(UpperChars)
    /\ ret[1].threat[1].threat_type = "reverse_shell"

\* C10: the keyword tables classify the sample events as their tests assert:
\* "Privilege escalation attempt" is PRIVILEGE_ESCALATION, "Suspicious network activity"
\* is NETWORK_ANOMALY, "/etc/passwd" is FILE_ANOMALY, "Container escape attempt" is
\* CONTAINER_ESCAPE.
C10_SamplesClassifiedAsTested ==
    NormalizedCall =>
        LET t == ret[1].threat[1].threat_type
        IN  /\ ret[1].event = PRIVILEGE_ESCALATION_EVENT => t = "privilege_escalation"
            /\ ret[1].event = NETWORK_ANOMALY_EVENT => t = "network_anomaly"
            /\ ret[1].event = ETC_PASSWD_EVENT => t = "file_anomaly"
            /\ ret[1].event = CONTAINER_ESCAPE_EVENT => t = "container_escape"

\* =========================================================== claims: Decider

\* The completed decide_action call.
DecidedCall == ret # None /\ ret[1].op = "decide_action"

\* The call was decided by the rule policy: the configured one, or the fallback when
\* the agent raised.
RuleDecided == DecidedCall /\ (~use_rl_agent \/ ret[1].agent.raises)

\* C5: every Action decide_action returns, for every severity, threat type and ml_score
\* and under the rule policy and the learned policy alike, has requires_confirmation
\* true exactly when its risk_level is MEDIUM or HIGH.
C5_ConfirmationIffMediumOrHigh ==
    DecidedCall =>
        ret[1].action.requires_confirmation = (ret[1].action.risk_level \in {"medium", "high"})

\* C5 witness: the learned policy chose ISOLATE_POD for a threat that is not CRITICAL;
\* the action is MEDIUM risk and requires confirmation.
C5_Witness ==
    /\ DecidedCall
    /\ use_rl_agent
    /\ ~ret[1].agent.raises
    /\ ret[1].action.action_type = "isolate_pod"
    /\ ret[1].action.risk_level = "medium"
    /\ ret[1].action.requires_confirmation

\* The row of the documented rule table for a (severity, threat_type) pair:
\* << action_type, risk_level, base confidence in thousandths >>.
TabledRow(severity, threat_type) ==
    IF severity = "critical" /\ threat_type = "reverse_shell"
    THEN << "terminate_pod", "high", 900 >>
    ELSE IF severity = "critical"
    THEN << "isolate_pod", "medium", 800 >>
    ELSE IF severity = "high" /\ threat_type \in {"reverse_shell", "container_escape"}
    THEN << "isolate_pod", "medium", 750 >>
    ELSE IF severity = "high"
    THEN << "alert", "low", 700 >>
    ELSE IF severity = "medium"
    THEN << "alert", "low", 600 >>
    ELSE << "log", "low", 500 >>

\* C6: for each of the 4x8 (severity, threat_type) pairs the rule policy returns the
\* tabled action_type and risk_level, with the tabled base confidence when no ml_score
\* boosts it: CRITICAL & REVERSE_SHELL -> (TERMINATE_POD, HIGH, 0.90); CRITICAL & other ->
\* (ISOLATE_POD, MEDIUM, 0.80); HIGH & {REVERSE_SHELL, CONTAINER_ESCAPE} -> (ISOLATE_POD,
\* MEDIUM, 0.75); HIGH & other -> (ALERT, LOW, 0.70); MEDIUM -> (ALERT, LOW, 0.60);
\* LOW -> (LOG, LOW, 0.50); MONITOR and the reserved action types are never produced.
C6_RuleTable ==
    RuleDecided =>
        LET threat == ret[1].threat
            action == ret[1].action
            row    == TabledRow(threat.severity, threat.threat_type)
        IN  /\ threat.severity \in ThreatSeverity
            /\ threat.threat_type \in ThreatType
            /\ action.action_type = row[1]
            /\ action.risk_level = row[2]
            /\ threat.ml_score = None => action.confidence = row[3]
            /\ action.action_type \in {"terminate_pod", "isolate_pod", "alert", "log"}

\* C6 witness: a HIGH container escape without ml_score got ISOLATE_POD, MEDIUM, 0.75.
C6_Witness ==
    /\ RuleDecided
    /\ ret[1].threat.severity = "high"
    /\ ret[1].threat.threat_type = "container_escape"
    /\ ret[1].threat.ml_score = None
    /\ ret[1].action.action_type = "isolate_pod"
    /\ ret[1].action.risk_level = "medium"
    /\ ret[1].action.confidence = 750

ExecutedCall == ret # None /\ ret[1].op = "execute_action"

\* C4: after any call of execute_action: an action with requires_confirmation has
\* executed = false and success unknown; any other has executed = true, success true or
\* false, executed_at set, and error_message set exactly when success is false; when the
\* orchestrator call raises, success is false and error_message is set.
C4_ExecutePostconditions ==
    ExecutedCall =>
        LET action == ret[1].action
        IN  IF ret[1].given.requires_confirmation
            THEN ~action.executed /\ action.success = None
            ELSE /\ action.executed
                 /\ action.success \in {Some(TRUE), Some(FALSE)}
                 /\ action.executed_at # None
                 /\ (action.error_message # None) = (action.success = Some(FALSE))
                 /\ (ret[1].k8s_raises /\ ret[1].calls # <<>>) =>
                        action.success = Some(FALSE) /\ action.error_message # None

\* =========================================================== claims: webhook

\* The completed webhook call.
WebhookCall == ret # None /\ ret[1].op = "falco_webhook"

\* The webhook call decided an Action of LOW risk.
LowRiskDecision == WebhookCall /\ ret[1].action # None /\ ret[1].action[1].risk_level = "low"

\* The identifiers of the stored actions.
StoredActionIds ==
    { _actions_db[i].id : i \in 1..Len(_actions_db) } \cup
    { db_actions[i].id : i \in 1..Len(db_actions) }

\* C1: every envelope posted to the webhook whose decided Action has
\* risk_level LOW has that Action executed = true and success = true by the time the
\* response is returned.
C1_LowRiskExecuted ==
    LowRiskDecision =>
        ret[1].action[1].executed /\ ret[1].action[1].success = Some(TRUE)

\* C1, amended: a LOW-risk Action is executed (executed = true, success = true, stored) by
\* the time the response is returned exactly when its confidence exceeds 0.85; at 0.85
\* or below it is left executed = false, success unknown, and is not stored.  Under the
\* rule policy the Actions for MEDIUM and LOW threats (priority "Warning" with "port
\* scan", priority "Notice" without keyword) never exceed 0.85 and are never executed.
C1_LowRiskExecutedIffConfident ==
    LowRiskDecision =>
        LET action == ret[1].action[1]
        IN  /\ action.confidence > 850 =>
                 /\ action.executed /\ action.success = Some(TRUE)
                 /\ action.id \in StoredActionIds
            /\ action.confidence <= 850 =>
                 /\ ~action.executed /\ action.success = None
                 /\ action.id \notin StoredActionIds
            /\ (~use_rl_agent /\ ret[1].threat[1].severity \in {"medium", "low"}) =>
                 ~action.executed

\* C1 witness: a LOW-risk Action of confidence above 0.85 was executed by the call.
C1_Witness ==
    /\ LowRiskDecision
    /\ ret[1].action[1].confidence > 850
    /\ ret[1].action[1].executed
    /\ ret[1].action[1].success = Some(TRUE)

\* C2: an envelope with priority "Critical" and a reverse-shell keyword is normalized to
\* severity HIGH and type REVERSE_SHELL, and the rule policy then produces an Action
\* TERMINATE_POD of risk HIGH with requires_confirmation = true, which stays
\* executed = false.
C2_CriticalReverseShellTerminates ==
    ( /\ WebhookCall
      /\ ~use_rl_agent
      /\ ret[1].threat # None
      /\ PriorityOf(ret[1].body.event) = Some("Critical")
      /\ Mentions(SearchedText(ret[1].body.event), "reverse_shell") ) =>
        /\ ret[1].threat[1].severity = "high"
        /\ ret[1].threat[1].threat_type = "reverse_shell"
        /\ ret[1].action[1].action_type = "terminate_pod"
        /\ ret[1].action[1].risk_level = "high"
        /\ ret[1].action[1].requires_confirmation
        /\ ~ret[1].action[1].executed

\* The threat store: the in-memory list and the table.
ThreatStore == << _threats_db, db_threats >>

\* The identifiers of the stored threats.
StoredThreatIds ==
    { _threats_db[i].id : i \in 1..Len(_threats_db) } \cup
    { db_threats[i].id : i \in 1..Len(db_threats) }

\* The body is JSON whose top level is no mapping.
NotMappingBody(body) == body.json_ok /\ ~body.event.is_mapping

\* The body is a JSON mapping without `output` and without `priority`.
IncompleteBody(body) ==
    body.json_ok /\ body.event.is_mapping /\ {"output", "priority"} \cap body.event.keys = {}

\* The call dropped the envelope: no Threat, no broadcast, 200 with threat null.
Dropped(call) ==
    /\ call.threat = None
    /\ call.broadcasts = <<>>
    /\ call.status = 200
    /\ call.response = [status |-> "processed", threat |-> None]

\* C3: an envelope that is no mapping at top level, or a mapping missing both `output`
\* and `priority` (e.g. {}), is dropped: no Threat, the threat store unchanged, no
\* broadcast, and the answer 200 {status: "processed", threat: null}.
C3_InvalidEnvelopeDropped ==
    [][ (ret' # ret /\ ret' # None /\ ret'[1].op = "falco_webhook"
           /\ (NotMappingBody(ret'[1].body) \/ IncompleteBody(ret'[1].body))) =>
            Dropped(ret'[1]) /\ ThreatStore' = ThreatStore ]_vars

\* What the handler does with such envelopes: one that is no mapping at top level is
\* dropped (no Threat, the threat store unchanged, no broadcast, 200 with threat null);
\* {} is normalized with the defaults (empty output, priority "Informational", rule
\* "Unknown") to a LOW / UNKNOWN Threat, which is stored, broadcast once, and named in
\* the 200 response.
OnlyNonMappingDropped ==
    [][ (ret' # ret /\ ret' # None /\ ret'[1].op = "falco_webhook") =>
          LET call == ret'[1]
          IN  /\ NotMappingBody(call.body) =>
                   Dropped(call) /\ ThreatStore' = ThreatStore
              /\ (call.body.json_ok /\ call.body.event = EmptyEnvelope) =>
                   /\ call.threat # None
                   /\ call.threat[1].severity = "low"
                   /\ call.threat[1].threat_type = "unknown"
                   /\ call.threat[1].description = <<>>
                   /\ call.threat[1].falco_priority = Some("Informational")
                   /\ call.threat[1].falco_rule = Some(RuleDefault)
                   /\ call.threat[1].id \in StoredThreatIds' \ StoredThreatIds
                   /\ Len(call.broadcasts) = 1
                   /\ call.broadcasts[1].message.threat_id = call.threat[1].id
                   /\ call.status = 200
                   /\ call.response.status = "processed"
                   /\ call.response.threat_id = call.threat[1].id ]_vars

\* The store holds the Threat made from {}, and a later body that is no mapping was
\* answered with threat null.
EmptyObjectStoredThenNonMappingDropped ==
    /\ WebhookCall
    /\ NotMappingBody(ret[1].body)
    /\ Dropped(ret[1])
    /\ \E i \in 1..Len(_threats_db) :
         /\ _threats_db[i].falco_priority = Some("Informational")
         /\ _threats_db[i].falco_rule = Some(RuleDefault)
         /\ _threats_db[i].threat_type = "unknown"

\* ------------------------------------------------ direct calls of the Scorer

\* The threats handed to detect_anomaly: every severity with every type.
ScorerInputs ==
    { [ThreatEvent(1, 1) EXCEPT !.severity = sev, !.threat_type = tt] :
        sev \in ThreatSeverity, tt \in ThreatType }

\* decision_function values (percent) on both sides of the clamp and between.
ScorerDecisionScores == {-60, -20, 0, 26, 60}

\* What the fitted model does on a call of the Scorer; without a model it is not
\* consulted.
ScorerModelOutcomes ==
    IF ml_initialized
    THEN {[raises |-> TRUE, decision_score |-> 0]} \cup
         {[raises |-> FALSE, decision_score |-> d] : d \in ScorerDecisionScores}
    ELSE {NoModel}

\* await ml_service.detect_anomaly(threat)
DetectAnomalyCall ==
    /\ arg # None
    /\ arg[1].op = "detect_anomaly"
    /\ \E model \in ScorerModelOutcomes :
         ret' = Some([ op |-> "detect_anomaly", threat |-> arg[1].threat,
                       consulted |-> ml_initialized, model |-> model,
                       score |-> detect_anomaly(arg[1].threat, model) ])
    /\ arg' = None
    /\ UNCHANGED << USE_DATABASE, _threats_db, _actions_db, db_threats, db_actions,
                    active_connections, ml_initialized, use_rl_agent, k8s_initialized,
                    next_id, now >>

InitScorer ==
    /\ InitProcess
    /\ ml_initialized \in BOOLEAN
    /\ use_rl_agent = FALSE
    /\ k8s_initialized = FALSE
    /\ \E threat \in ScorerInputs : arg = Some([op |-> "detect_anomaly", threat |-> threat])

NextScorer == DetectAnomalyCall

SpecScorer == InitScorer /\ [][NextScorer]_vars

\* --------------------------------------------------- the hub, send by send

\* The websockets that reach the hub.
HubSockets == {1, 2, 3}

\* The messages handed to broadcast.
HubMessages == {"threat_detected"}

\* manager.disconnect(websocket): list.remove raises ValueError when the list does not
\* hold the websocket.
disconnect(connections, websocket) ==
    IF websocket \in Range(connections)
    THEN [raised |-> FALSE, connections |-> Remove(connections, websocket)]
    ELSE [raised |-> TRUE, connections |-> connections]

\* A broadcast that drops the member whose send raised.
BroadcastSendDroppingFailed(frame, connections, ok) ==
    LET connection == connections[frame.i + 1]
    IN  [ frame |-> [frame EXCEPT !.i = IF ok THEN @ + 1 ELSE @,
                                  !.attempts = Append(@, [to |-> connection, ok |-> ok])],
          connections |-> IF ok THEN connections ELSE Remove(connections, connection) ]

\* One turn of broadcast's loop: the list iterator hands out the entry at its index and
\* advances, the send is attempted, and a send that raises is passed over.
broadcast_send(frame, connections, ok) ==
    LET connection == connections[frame.i + 1]
    IN  [ frame |-> [frame EXCEPT !.i = @ + 1,
                                  !.attempts = Append(@, [to |-> connection, ok |-> ok])],
          connections |-> connections ]

\* What a suspended broadcast remembers of the hub's changes: the members that were
\* there at its start and have been ever since, and whether the list changed at all.
Disturbed(frame, gone) ==
    IF frame = None THEN frame
    ELSE Some([frame[1] EXCEPT !.stayed = @ \ gone, !.changed = TRUE])

\* WS /api/v1/stream: manager.connect(websocket), also while a broadcast is suspended
HubConnect ==
    /\ \E websocket \in HubSockets \ Range(active_connections) :
         /\ active_connections' = Append(active_connections, websocket)
         /\ arg' = Disturbed(arg, {})
         /\ ret' = Some([op |-> "connect", websocket |-> websocket])
    /\ UNCHANGED << USE_DATABASE, _threats_db, _actions_db, db_threats, db_actions,
                    ml_initialized, use_rl_agent, k8s_initialized, next_id, now >>

\* manager.disconnect(websocket), also while a broadcast is suspended
HubDisconnect ==
    /\ \E websocket \in HubSockets :
         LET r == disconnect(active_connections, websocket)
         IN  /\ active_connections' = r.connections
             /\ arg' = IF r.raised THEN arg ELSE Disturbed(arg, {websocket})
             /\ ret' = Some([ op |-> "disconnect", websocket |-> websocket,
                              raised |-> r.raised, before |-> active_connections,
                              after |-> r.connections ])
    /\ UNCHANGED << USE_DATABASE, _threats_db, _actions_db, db_threats, db_actions,
                    ml_initialized, use_rl_agent, k8s_initialized, next_id, now >>

\* await manager.broadcast(message): the call starts iterating self.active_connections
BroadcastStart ==
    /\ arg = None
    /\ \E message \in HubMessages :
         arg' = Some([ op |-> "broadcast", message |-> message, i |-> 0,
                       attempts |-> <<>>, before |-> active_connections,
                       stayed |-> Range(active_connections), changed |-> FALSE ])
    /\ ret' = None
    /\ UNCHANGED << USE_DATABASE, _threats_db, _actions_db, db_threats, db_actions,
                    active_connections, ml_initialized, use_rl_agent, k8s_initialized,
                    next_id, now >>

\* await connection.send_json(message) inside try/except: the broadcast is suspended
\* in the send, which succeeds or raises
BroadcastSend ==
    /\ arg # None
    /\ arg[1].i < Len(active_connections)
    /\ \E ok \in BOOLEAN :
         LET r == broadcast_send(arg[1], active_connections, ok)
         IN  /\ arg' = Some(r.frame)
             /\ active_connections' = r.connections
    /\ UNCHANGED << USE_DATABASE, _threats_db, _actions_db, db_threats, db_actions,
                    ml_initialized, use_rl_agent, k8s_initialized, next_id, now, ret >>

\* The iterator is exhausted and broadcast returns.
BroadcastReturn ==
    /\ arg # None
    /\ arg[1].i >= Len(active_connections)
    /\ ret' = Some([ op |-> "broadcast", message |-> arg[1].message,
                     attempts |-> arg[1].attempts, before |-> arg[1].before,
                     after |-> active_connections, stayed |-> arg[1].stayed,
                     changed |-> arg[1].changed ])
    /\ arg' = None
    /\ UNCHANGED << USE_DATABASE, _threats_db, _actions_db, db_threats, db_actions,
                    active_connections, ml_initialized, use_rl_agent, k8s_initialized,
                    next_id, now >>

\* The hub of a fresh process: no member, no broadcast under way.
InitHub ==
    /\ InitProcess
    /\ ~USE_DATABASE
    /\ ml_initialized = FALSE
    /\ use_rl_agent = FALSE
    /\ k8s_initialized = FALSE
    /\ arg = None

NextHub ==
    \/ HubConnect
    \/ HubDisconnect
    \/ BroadcastStart
    \/ BroadcastSend
    \/ BroadcastReturn

SpecHub == InitHub /\ [][NextHub]_vars

\* ================================================= the stream endpoint

\* The endpoint's coroutine for each websocket, the transports that have closed, and the
\* members a send of some broadcast has failed for.
NoStreams ==
    [ op |-> "stream", handler |-> [s \in HubSockets |-> "none"], closed |-> {},
      failed |-> {} ]

\* What a send_json on a closed transport raises: WebSocketDisconnect or another
\* exception, depending on the server and its version.
SendFailures == {"WebSocketDisconnect", "RuntimeError"}

\* websocket_stream(websocket): await manager.connect(websocket)
StreamConnect(s) ==
    /\ arg[1].handler[s] = "none"
    /\ active_connections' = Append(active_connections, s)
    /\ arg' = Some([arg[1] EXCEPT !.handler[s] = "receive_text"])
    /\ UNCHANGED << USE_DATABASE, _threats_db, _actions_db, db_threats, db_actions,
                    ml_initialized, use_rl_agent, k8s_initialized, next_id, now, ret >>

\* The client goes away: the transport of a connected websocket closes.
TransportClose(s) ==
    /\ arg[1].handler[s] \in {"receive_text", "send_json"}
    /\ s \notin arg[1].closed
    /\ arg' = Some([arg[1] EXCEPT !.closed = @ \cup {s}])
    /\ UNCHANGED << USE_DATABASE, _threats_db, _actions_db, db_threats, db_actions,
                    active_connections, ml_initialized, use_rl_agent, k8s_initialized,
                    next_id, now, ret >>

\* data = await websocket.receive_text(): on a closed transport it raises
\* WebSocketDisconnect and the handler calls manager.disconnect(websocket).
ReceiveText(s) ==
    /\ arg[1].handler[s] = "receive_text"
    /\ IF s \in arg[1].closed
       THEN /\ active_connections' = disconnect(active_connections, s).connections
            /\ arg' = Some([arg[1] EXCEPT !.handler[s] = "returned"])
       ELSE /\ arg' = Some([arg[1] EXCEPT !.handler[s] = "send_json"])
            /\ UNCHANGED active_connections
    /\ UNCHANGED << USE_DATABASE, _threats_db, _actions_db, db_threats, db_actions,
                    ml_initialized, use_rl_agent, k8s_initialized, next_id, now, ret >>

\* await websocket.send_json({"type": "ping", ...}): on a closed transport it raises;
\* only WebSocketDisconnect is caught, any other exception ends the coroutine.
SendPing(s) ==
    /\ arg[1].handler[s] = "send_json"
    /\ IF s \in arg[1].closed
       THEN \E e \in SendFailures :
              IF e = "WebSocketDisconnect"
              THEN /\ active_connections' = disconnect(active_connections, s).connections
                   /\ arg' = Some([arg[1] EXCEPT !.handler[s] = "returned"])
              ELSE /\ arg' = Some([arg[1] EXCEPT !.handler[s] = "raised"])
                   /\ UNCHANGED active_connections
       ELSE /\ arg' = Some([arg[1] EXCEPT !.handler[s] = "receive_text"])
            /\ UNCHANGED active_connections
    /\ UNCHANGED << USE_DATABASE, _threats_db, _actions_db, db_threats, db_actions,
                    ml_initialized, use_rl_agent, k8s_initialized, next_id, now, ret >>

\* await manager.broadcast(message), sends to open transports returning at once: the
\* sends to closed transports raise, which broadcast passes over.
StreamBroadcast ==
    /\ active_connections # <<>>
    /\ arg' = Some([arg[1] EXCEPT !.failed = @ \cup (Range(active_connections)
                                                       \cap arg[1].closed)])
    /\ ret' = Some([ op |-> "broadcast",
                     attempted |-> broadcast("threat_detected").attempted,
                     raised |-> Range(active_connections) \cap arg[1].closed ])
    /\ UNCHANGED << USE_DATABASE, _threats_db, _actions_db, db_threats, db_actions,
                    active_connections, ml_initialized, use_rl_agent, k8s_initialized,
                    next_id, now >>

InitStream ==
    /\ InitProcess
    /\ ~USE_DATABASE
    /\ ml_initialized = FALSE
    /\ use_rl_agent = FALSE
    /\ k8s_initialized = FALSE
    /\ arg = Some(NoStreams)

NextStream ==
    \/ \E s \in HubSockets : StreamConnect(s)
    \/ \E s \in HubSockets : TransportClose(s)
    \/ \E s \in HubSockets : ReceiveText(s)
    \/ \E s \in HubSockets : SendPing(s)
    \/ StreamBroadcast

SpecStream == InitStream /\ [][NextStream]_vars

\* The scheduler runs every coroutine that can run.
FairStream ==
    /\ SpecStream
    /\ \A s \in HubSockets : WF_vars(ReceiveText(s)) /\ WF_vars(SendPing(s))

\* ------------------------------------------- direct calls of the list queries
\* (one query on a store that earlier appends have filled)

\* The stores the queries run on hold at most this many records.
MaxListed == 2

\* GET /api/v1/actions?action_type=&executed=&limit=
list_actions(action_type, executed, limit, db_ok) ==
    LET actions == get_actions_db(db_ok)
        Keep(a) == /\ action_type = None \/ a.action_type = action_type[1]
                   /\ executed = None \/ a.executed = executed[1]
    IN  Truncate(SelectSeq(actions, Keep), limit)

\* GET /api/v1/actions/{action_id}
get_action(action_id, db_ok) ==
    LET found == Find(get_actions_db(db_ok), action_id)
    IN  IF action_id = NotAUuid
        THEN [status |-> 500, action |-> None, detail |-> Some("Internal Server Error")]
        ELSE IF found # None
        THEN [status |-> 200, action |-> found, detail |-> None]
        ELSE [status |-> 404, action |-> None, detail |-> Some("Action not found")]

\* The threats a store may hold, by the fields the queries look at.
ThreatKinds ==
    [severity : {"high", "low"}, threat_type : {"reverse_shell", "unknown"},
     resolved : BOOLEAN]

\* The actions a store may hold, by the fields the queries look at.
ActionKinds == [action_type : {"alert", "monitor"}, executed : BOOLEAN]

\* The i-th threat added, of the given kind.
ThreatOfKind(i, kind) ==
    [ThreatEvent(i, i) EXCEPT !.severity = kind.severity,
                              !.threat_type = kind.threat_type,
                              !.resolved = kind.resolved,
                              !.resolved_at = IF kind.resolved THEN Some(i) ELSE None]

\* The i-th action added, of the given kind.
ActionOfKind(i, kind) ==
    [RemediationAction(i, i) EXCEPT !.action_type = kind.action_type,
                                    !.executed = kind.executed,
                                    !.executed_at = IF kind.executed THEN Some(i) ELSE None,
                                    !.success = IF kind.executed THEN Some(TRUE) ELSE None]

\* The stores after up to MaxListed appends of records of the given kinds.
ThreatStores ==
    UNION { { [i \in 1..n |-> ThreatOfKind(i, kinds[i])] : kinds \in [1..n -> ThreatKinds] } :
            n \in 0..MaxListed }

ActionStores ==
    UNION { { [i \in 1..n |-> ActionOfKind(i, kinds[i])] : kinds \in [1..n -> ActionKinds] } :
            n \in 0..MaxListed }

\* The query parameters: each filter absent or given; a limit below, at and above the
\* number of records.
QuerySeverities == {None, Some("high"), Some("critical")}

QueryThreatTypes == {None, Some("reverse_shell")}

QueryFlags == {None, Some(TRUE), Some(FALSE)}

QueryActionTypes == {None, Some("alert")}

QueryLimits == {1, 2, 100}

\* What one call of GET /api/v1/threats may answer.
ListThreatsQueryOutcomes ==
    { [ op |-> "list_threats", severity |-> severity, threat_type |-> threat_type,
        resolved |-> resolved, limit |-> limit, served |-> get_threats_db(db_ok),
        result |-> list_threats(severity, threat_type, resolved, limit, db_ok) ] :
      severity \in QuerySeverities, threat_type \in QueryThreatTypes,
      resolved \in QueryFlags, limit \in QueryLimits, db_ok \in DbOutcomes }

\* GET /api/v1/threats
ListThreatsQuery ==
    /\ ret = None
    /\ \E r \in ListThreatsQueryOutcomes : ret' = Some(r)
    /\ UNCHANGED << USE_DATABASE, _threats_db, _actions_db, db_threats, db_actions,
                    active_connections, ml_initialized, use_rl_agent, k8s_initialized,
                    next_id, now, arg >>

\* What one call of GET /api/v1/actions may answer.
ListActionsQueryOutcomes ==
    { [ op |-> "list_actions", action_type |-> action_type, executed |-> executed,
        limit |-> limit, served |-> get_actions_db(db_ok),
        result |-> list_actions(action_type, executed, limit, db_ok) ] :
      action_type \in QueryActionTypes, executed \in QueryFlags, limit \in QueryLimits,
      db_ok \in DbOutcomes }

\* GET /api/v1/actions
ListActionsQuery ==
    /\ ret = None
    /\ \E r \in ListActionsQueryOutcomes : ret' = Some(r)
    /\ UNCHANGED << USE_DATABASE, _threats_db, _actions_db, db_threats, db_actions,
                    active_connections, ml_initialized, use_rl_agent, k8s_initialized,
                    next_id, now, arg >>

\* What one call of GET /api/v1/actions/{action_id} may answer.
GetActionOutcomes ==
    { [ op |-> "get_action", action_id |-> action_id,
        answer |-> get_action(action_id, db_ok) ] :
      action_id \in PathIds, db_ok \in DbOutcomes }

\* GET /api/v1/actions/{action_id}
GetAction ==
    /\ ret = None
    /\ \E r \in GetActionOutcomes : ret' = Some(r)
    /\ UNCHANGED << USE_DATABASE, _threats_db, _actions_db, db_threats, db_actions,
                    active_connections, ml_initialized, use_rl_agent, k8s_initialized,
                    next_id, now, arg >>

\* db.query(...).all() has no ORDER BY: the orders in which the database may hand out
\* the rows that were inserted in the order of `rows`.
RowOrders(rows) ==
    { [i \in 1..Len(rows) |-> rows[p[i]]] : p \in Permutations(1..Len(rows)) }

\* A process whose store holds threats or actions: without a database they are the
\* entries of the in-memory lists, in the order of the appends; with a database they are
\* rows, which the table hands out in an order of its own.
InitQuery ==
    /\ USE_DATABASE \in BOOLEAN
    /\ \E threats \in ThreatStores, actions \in ActionStores :
         /\ threats = <<>> \/ actions = <<>>
         /\ _threats_db = IF USE_DATABASE THEN <<>> ELSE threats
         /\ db_threats \in IF USE_DATABASE THEN RowOrders(threats) ELSE {<<>>}
         /\ _actions_db = IF USE_DATABASE THEN <<>> ELSE actions
         /\ db_actions \in IF USE_DATABASE THEN RowOrders(actions) ELSE {<<>>}
         /\ next_id = Len(threats) + Len(actions) + 1
         /\ now = Len(threats) + Len(actions) + 1
    /\ active_connections = <<>>
    /\ ml_initialized = FALSE
    /\ use_rl_agent = FALSE
    /\ k8s_initialized = FALSE
    /\ arg = None
    /\ ret = None

NextQuery == ListThreatsQuery \/ ListActionsQuery \/ GetAction

SpecQuery == InitQuery /\ [][NextQuery]_vars

\* ================================================ claims: storage and read API

\* The last step was a call of GET /api/v1/threats.
ListCall == ret # None /\ ret[1].op = "list_threats"

\* The ids of a list's entries.
Ids(list) == {list[i].id : i \in 1..Len(list)}

\* A list call that neither filters nor cuts: no resolved filter, limit above the count.
WholeListCall == ListCall /\ ret[1].resolved = None /\ ret[1].limit >= StoredThreats

\* C11: every record whose add_threat call returned appears in the result of every
\* later list_threats call, the database failing or succeeding on each call on its own
\* (nothing removes a record, so the records added are those either backing holds).
C11_AddedThenListed ==
    WholeListCall => KnownThreatIds \subseteq Ids(ret[1].result)

\* The part of C11 that holds: without a database every added record is listed.
AddedThenListedInMemory ==
    (WholeListCall /\ ~USE_DATABASE) => KnownThreatIds \subseteq Ids(ret[1].result)

\* A record was added to the list while the table's insert failed, and a list call
\* answered from the table does not show it.
AddedToListThenListedFromTable ==
    /\ WholeListCall
    /\ USE_DATABASE
    /\ \E id \in Ids(_threats_db) : id \notin Ids(ret[1].result)

\* The last step was a call of POST /api/v1/threats/{threat_id}/resolve.
ResolveCall == ret # None /\ ret[1].op = "resolve_threat"

\* The call answered {"status": "resolved", ...}.
Resolved == ResolveCall /\ ret[1].status = 200

\* No two entries of the list carry the same id.
NoDuplicates(list) ==
    \A i, j \in 1..Len(list) : list[i].id = list[j].id => i = j

\* The entries of the list that carry `id`.
Copies(list, id) == Cardinality({i \in 1..Len(list) : list[i].id = id})

\* C12: list_threats never contains two entries with the same id, whatever ingestions,
\* adds (repeated adds of one record too) and resolves came before; a resolve leaves the
\* number of stored threats as it was, and the query resolved=true then returns the
\* resolved record exactly once.
C12_IdentityUnique ==
    /\ ListCall => NoDuplicates(ret[1].result)
    /\ Resolved =>
         /\ StoredThreats = ret[1].before
         /\ \A db_ok \in DbOutcomes :
              Copies(list_threats(None, None, Some(TRUE), 100, db_ok),
                     ret[1].threat_id) = 1

\* Without a database, a resolve has left the record twice in the list.
ResolvedTwiceInList ==
    /\ Resolved
    /\ ~USE_DATABASE
    /\ StoredThreats = ret[1].before + 1
    /\ Copies(_threats_db, ret[1].threat_id) = 2

\* The last step was a call of GET /api/v1/threats/{threat_id}.
GetCall == ret # None /\ ret[1].op = "get_threat"

\* The ids a resolve call has succeeded for: resolve is the only operation that marks an
\* entry, and each success marks one.
ResolvedIds ==
    {_threats_db[i].id : i \in {j \in 1..Len(_threats_db) : _threats_db[j].resolved}}
        \cup {db_threats[i].id : i \in {j \in 1..Len(db_threats) : db_threats[j].resolved}}

\* The record is shown resolved, with its time of resolution, not before its detection.
ShownResolved(t) ==
    /\ t.resolved
    /\ t.resolved_at # None
    /\ t.resolved_at[1] >= t.detected_at

\* I5 on what the store holds: resolved entries carry resolved_at, not before detected_at.
ResolvedHasTime ==
    /\ \A i \in 1..Len(_threats_db) : _threats_db[i].resolved => ShownResolved(_threats_db[i])
    /\ \A i \in 1..Len(db_threats) : db_threats[i].resolved => ShownResolved(db_threats[i])

\* C13: once a resolve of a stored threat has succeeded, every later lookup and every
\* later list of it shows resolved = true with resolved_at set and not before
\* detected_at; and in every state a resolved entry has resolved_at set.
C13_ResolveThenLookup ==
    /\ ResolvedHasTime
    /\ (GetCall /\ ret[1].threat_id \in ResolvedIds) =>
         /\ ret[1].answer.status = 200
         /\ ShownResolved(ret[1].answer.threat[1])
    /\ WholeListCall =>
         \A id \in ResolvedIds :
             /\ id \in Ids(ret[1].result)
             /\ \A i \in 1..Len(ret[1].result) :
                    ret[1].result[i].id = id => ShownResolved(ret[1].result[i])

\* The part of C13 that holds: without a database the lookups and lists after a resolve
\* show the record resolved.
ResolveThenLookupInMemory == ~USE_DATABASE => C13_ResolveThenLookup

\* A lookup of a threat resolved in the table was answered from the in-memory list:
\* not found, or found unresolved.
ResolvedInTableLookedUpInList ==
    /\ GetCall
    /\ ret[1].threat_id \in ResolvedIds
    /\ \/ ret[1].answer.status = 404
       \/ ret[1].answer.status = 200 /\ ~ret[1].answer.threat[1].resolved

\* ============================================================ claims: broadcast

\* C14: an ingestion that produces a Threat attempts exactly one broadcast, of type
\* "threat_detected", whose threat_id is the id of the record just stored and whose
\* severity and threat_type are the record's; an ingestion that produces no Threat
\* attempts none.
C14_OneBroadcastPerThreat ==
    WebhookCall =>
        IF ret[1].threat # None
        THEN /\ Len(ret[1].broadcasts) = 1
             /\ ret[1].broadcasts[1].message.type = "threat_detected"
             /\ ret[1].broadcasts[1].message.threat_id = ret[1].threat[1].id
             /\ ret[1].broadcasts[1].message.threat_id \in StoredThreatIds
             /\ ret[1].broadcasts[1].message.severity = ret[1].threat[1].severity
             /\ ret[1].broadcasts[1].message.threat_type = ret[1].threat[1].threat_type
        ELSE ret[1].broadcasts = <<>>

\* A reverse shell at priority Critical was ingested with a client connected, and one
\* message went out to that client.
C14_Witness ==
    /\ WebhookCall
    /\ ret[1].threat # None
    /\ ret[1].threat[1].severity = "high"
    /\ ret[1].threat[1].threat_type = "reverse_shell"
    /\ Len(ret[1].broadcasts) = 1
    /\ ret[1].broadcasts[1].attempted # <<>>
    /\ ret[1].broadcasts[1].message.severity = "high"

\* ====================================================== claims: error handling

\* C15: the webhook handler never raises: whatever the body and whichever stage fails
\* (database insert, model, agent), the call ends with 200 and status "processed" or
\* with 500 and a body carrying error.
C15_WebhookNeverRaises ==
    WebhookCall =>
        \/ ret[1].status = 200 /\ ret[1].response.status = "processed"
        \/ ret[1].status = 500 /\ DOMAIN ret[1].response = {"error"}

\* A body that is no JSON was answered 500, with the store as it was.
C15_Witness ==
    /\ WebhookCall
    /\ ~ret[1].body.json_ok
    /\ ret[1].status = 500
    /\ ret[1].threat = None

\* The fitted model raised while scoring (0.5 is what detect_anomaly then returns) and
\* the call was answered 200.
ScorerFailedAndProcessed ==
    /\ WebhookCall
    /\ ml_initialized
    /\ ret[1].threat # None
    /\ ret[1].threat[1].ml_score = Some(50)
    /\ ret[1].status = 200

\* ========================================================= claims: action store

\* The stored actions, rows and list entries.
StoredActions == Range(_actions_db) \cup Range(db_actions)

\* C16: for every webhook call whose decided Action has requires_confirmation = true,
\* after the response the action store holds that Action, executed = false, linked to
\* the threat by threat_id.
C16_PendingActionPersisted ==
    (WebhookCall /\ ret[1].action # None /\ ret[1].action[1].requires_confirmation) =>
        \E a \in StoredActions :
            /\ a.id = ret[1].action[1].id
            /\ a.threat_id = ret[1].threat[1].id
            /\ ~a.executed

\* What the code does with such an Action: the webhook answers 200 and the action store
\* is left without it.
PendingActionDropped ==
    /\ WebhookCall
    /\ ret[1].action # None
    /\ ret[1].action[1].requires_confirmation
    /\ ret[1].status = 200
    /\ ~ret[1].executed_call
    /\ ret[1].action[1].id \notin StoredActionIds

\* The number of times the action store, rows and list entries, holds the action `id`.
StoredCopies(id) == Copies(_actions_db, id) + Copies(db_actions, id)

DispatchedActionStoredOnce ==
    (ExecutedCall /\ ~ret[1].given.requires_confirmation /\ ret[1].threat # None) =>
        StoredCopies(ret[1].given.id) = 1

\* The orchestrator call failed, and the Action is stored once with success = false.
OrchestratorFailureStored ==
    /\ ExecutedCall
    /\ ret[1].k8s_raises
    /\ ret[1].calls # <<>>
    /\ ret[1].action.success = Some(FALSE)
    /\ StoredCopies(ret[1].given.id) = 1

\* An exception reached the except clause of execute_action: the Action is marked
\* executed with success = false and an error message, and the store does not hold it.
RaisedActionNotStored ==
    /\ ExecutedCall
    /\ ~ret[1].given.requires_confirmation
    /\ ret[1].action.executed
    /\ ret[1].action.success = Some(FALSE)
    /\ ret[1].action.error_message # None
    /\ StoredCopies(ret[1].given.id) = 0

\* C18: in simulated mode (the orchestrator client is not available) executing a
\* TERMINATE_POD or ISOLATE_POD Action with requires_confirmation = false for a threat
\* invokes no orchestrator operation and ends with executed = true, success = true and
\* the Action stored.
C18_SimulatedMode ==
    ( /\ ExecutedCall
      /\ ~k8s_initialized
      /\ ret[1].given.action_type \in {"terminate_pod", "isolate_pod"}
      /\ ~ret[1].given.requires_confirmation
      /\ ret[1].threat # None ) =>
        /\ ret[1].calls = <<>>
        /\ ret[1].action.executed
        /\ ret[1].action.success = Some(TRUE)
        /\ ret[1].action.error_message = None
        /\ \E a \in StoredActions :
               a.id = ret[1].given.id /\ a.executed /\ a.success = Some(TRUE)

\* A TERMINATE_POD Action for the pod "test-pod" was executed in simulated mode.
C18_Witness ==
    /\ ExecutedCall
    /\ ~k8s_initialized
    /\ ret[1].given.action_type = "terminate_pod"
    /\ ~ret[1].given.requires_confirmation
    /\ ret[1].threat # None
    /\ ret[1].threat[1].source_pod = Some("test-pod")
    /\ ret[1].calls = <<>>
    /\ ret[1].action.success = Some(TRUE)
    /\ StoredCopies(ret[1].given.id) = 1

\* ============================================================ claims: simulate

\* The last step was a call of POST /api/v1/simulate.
SimulateCall == ret # None /\ ret[1].op = "simulate"

\* The stored entries, rows and list entries, that carry `id`.
StoredThreatsWithId(id) ==
    {t \in Range(_threats_db) \cup Range(db_threats) : t.id = id}

\* C19: POST /api/v1/simulate normalizes, stores and broadcasts as the webhook does and
\* invokes neither Scorer, Decider nor Actuator: after the call the action store is as it
\* was, the stored Threat has no ml_score, and no orchestrator operation was invoked.
C19_SimulateFrame ==
    SimulateCall =>
        /\ << _actions_db, db_actions >> = ret[1].actions_before
        /\ ret[1].calls = <<>>
        /\ ret[1].threat # None =>
             LET threat == ret[1].threat[1]
             IN  /\ threat = NormalizedThreat(ret[1].body.event, threat.id,
                                              threat.detected_at)
                 /\ threat.ml_score = None
                 /\ StoredThreatsWithId(threat.id) = {threat}
                 /\ Len(ret[1].broadcasts) = 1
                 /\ ret[1].broadcasts[1].message = ThreatMessage(threat)
                 /\ ret[1].status = 200
                 /\ ret[1].response.threat_id = Some(threat.id)
        /\ ret[1].threat = None => ret[1].broadcasts = <<>>

\* A reverse shell was posted to the simulate endpoint: the Threat is stored unscored.
C19_Witness ==
    /\ SimulateCall
    /\ ret[1].threat # None
    /\ ret[1].threat[1].threat_type = "reverse_shell"
    /\ ret[1].threat[1].ml_score = None
    /\ StoredThreatsWithId(ret[1].threat[1].id) # {}
    /\ Len(ret[1].broadcasts) = 1

\* ============================================================== claims: Scorer

\* The last step was a call of detect_anomaly.
ScoredCall == ret # None /\ ret[1].op = "detect_anomaly"

\* The fallback table of the specification, in percent.
FallbackTable ==
    [sev \in ThreatSeverity |->
        CASE sev = "low" -> 30 [] sev = "medium" -> 60
          [] sev = "high" -> 85 [] sev = "critical" -> 95]

\* C20 as stated: whenever the anomaly model is unavailable or raises during scoring,
\* detect_anomaly returns the table value for the threat's severity (LOW 0.3, MEDIUM 0.6,
\* HIGH 0.85, CRITICAL 0.95).
C20_ScorerFallback ==
    (ScoredCall /\ (~ret[1].consulted \/ ret[1].model.raises)) =>
        ret[1].score = FallbackTable[ret[1].threat.severity]

\* C20, amended: when the model is unavailable detect_anomaly returns the table value
\* for the threat's severity; when the model is available and raises it returns 0.5
\* whatever the severity; either way the result depends on the severity at most.
C20_FallbackTableOrNeutral ==
    ScoredCall =>
        /\ ~ret[1].consulted => ret[1].score = FallbackTable[ret[1].threat.severity]
        /\ (ret[1].consulted /\ ret[1].model.raises) => ret[1].score = 50

\* The model raised on a CRITICAL threat and the score is 0.5, not the table's 0.95.
C20_Witness ==
    /\ ScoredCall
    /\ ret[1].consulted
    /\ ret[1].model.raises
    /\ ret[1].threat.severity = "critical"
    /\ ret[1].score = 50

\* Without a model a HIGH threat scores the table's 0.85.
UnavailableModelScoresFromTable ==
    /\ ScoredCall
    /\ ~ret[1].consulted
    /\ ret[1].threat.severity = "high"
    /\ ret[1].score = 85

\* The decision value shifted by one half and cut to the unit interval, in percent.
ShiftedAndClamped(d) ==
    IF d + 50 < 0 THEN 0 ELSE IF d + 50 > 100 THEN 100 ELSE d + 50

\* C21: the score detect_anomaly returns lies in [0, 1] on every path: with a model that
\* answers, the decision value plus 0.5 clamped to [0, 1]; without a model a value of
\* the severity table; with a model that raises, the constant 0.5.
C21_ScoreInUnitInterval ==
    ScoredCall =>
        /\ ret[1].score \in 0..100
        /\ (ret[1].consulted /\ ~ret[1].model.raises) =>
               ret[1].score = ShiftedAndClamped(ret[1].model.decision_score)
        /\ ~ret[1].consulted => ret[1].score \in {30, 60, 85, 95}
        /\ (ret[1].consulted /\ ret[1].model.raises) => ret[1].score = 50

\* The model answered a decision value above 0.5, and the score is cut to 1.
C21_Witness ==
    /\ ScoredCall
    /\ ret[1].consulted
    /\ ~ret[1].model.raises
    /\ ret[1].model.decision_score > 50
    /\ ret[1].score = 100

\* The model answered a decision value below -0.5, and the score is raised to 0.
ScoreClampedAtZero ==
    /\ ScoredCall
    /\ ret[1].consulted
    /\ ~ret[1].model.raises
    /\ ret[1].model.decision_score < -50
    /\ ret[1].score = 0

\* ================================================================ claims: hub

\* The last step was the return of a broadcast.
BroadcastDone == ret # None /\ ret[1].op = "broadcast"

\* The websockets a broadcast attempted to send to, in the order of the attempts.
Attempted(call) == [k \in 1..Len(call.attempts) |-> call.attempts[k].to]

\* Some send of the broadcast raised.
SomeSendRaised(call) == \E k \in 1..Len(call.attempts) : ~call.attempts[k].ok

\* C22: a failed delivery changes nothing in the hub: for a broadcast in which the send
\* to some subscriber raises (and during which nobody connects or disconnects), the
\* members after it are the members before it, and every member was attempted once with
\* the message, those after the failing one too.
C22_FailedSendKeepsMembers ==
    (BroadcastDone /\ ~ret[1].changed /\ SomeSendRaised(ret[1])) =>
        /\ ret[1].after = ret[1].before
        /\ Attempted(ret[1]) = ret[1].before

\* A broadcast to three members whose first send raised: the two others were attempted
\* and the three are still members.
C22_Witness ==
    /\ BroadcastDone
    /\ ~ret[1].changed
    /\ Len(ret[1].before) = 3
    /\ ~ret[1].attempts[1].ok
    /\ Len(ret[1].attempts) = 3
    /\ ret[1].after = ret[1].before

\* The last step was a call of manager.disconnect.
DisconnectCall == ret # None /\ ret[1].op = "disconnect"

\* C23: unsubscribe is idempotent: disconnect for a websocket that is not, or no longer,
\* a member completes without error and leaves the members as they were; after any
\* disconnect the websocket is no member, so that a second call has the effect of one.
C23_DisconnectIdempotent ==
    DisconnectCall =>
        /\ ~ret[1].raised
        /\ ret[1].websocket \notin Range(ret[1].after)
        /\ ret[1].websocket \notin Range(ret[1].before) => ret[1].after = ret[1].before

\* The part of C23 that holds: a disconnect never leaves the websocket a member, and a
\* disconnect of a non-member leaves the members as they were.
DisconnectLeavesNoMember ==
    DisconnectCall =>
        /\ ret[1].websocket \notin Range(ret[1].after)
        /\ ret[1].websocket \notin Range(ret[1].before) => ret[1].after = ret[1].before

\* A disconnect of a websocket that is no member raised, other members being connected.
DisconnectOfNonMemberRaised ==
    /\ DisconnectCall
    /\ ret[1].websocket \notin Range(ret[1].before)
    /\ ret[1].before # <<>>
    /\ ret[1].raised

\* The number of delivery attempts a broadcast made to the websocket.
AttemptsTo(call, websocket) ==
    Cardinality({k \in 1..Len(call.attempts) : call.attempts[k].to = websocket})

\* C27: broadcast delivers over a snapshot of the membership: when subscribers connect or
\* disconnect while the broadcast is suspended in a send, every subscriber that is a
\* member for the whole of the broadcast gets exactly one delivery attempt.
C27_SnapshotDelivery ==
    BroadcastDone =>
        \A websocket \in ret[1].stayed : AttemptsTo(ret[1], websocket) = 1

\* The part of C27 that holds: nobody is attempted twice while a member throughout, and
\* a broadcast during which nobody connects or disconnects attempts every member once.
UndisturbedDelivery ==
    BroadcastDone =>
        /\ \A websocket \in ret[1].stayed : AttemptsTo(ret[1], websocket) <= 1
        /\ ~ret[1].changed =>
               \A websocket \in Range(ret[1].before) : AttemptsTo(ret[1], websocket) = 1

\* A member disconnected while the broadcast was suspended, and a member that stayed
\* throughout got no delivery attempt.
MemberSkipped ==
    /\ BroadcastDone
    /\ ret[1].changed
    /\ \E websocket \in ret[1].stayed :
         /\ websocket \in Range(ret[1].after)
         /\ AttemptsTo(ret[1], websocket) = 0

\* ============================================================ claims: queries

\* The last step was a list query, of threats or of actions.
ListQuery == ret # None /\ ret[1].op \in {"list_threats", "list_actions"} /\ "served" \in DOMAIN ret[1]

\* The record satisfies every filter the query supplied.
Satisfies(record, call) ==
    IF call.op = "list_threats"
    THEN /\ call.severity # None => record.severity = call.severity[1]
         /\ call.threat_type # None => record.threat_type = call.threat_type[1]
         /\ call.resolved # None => record.resolved = call.resolved[1]
    ELSE /\ call.action_type # None => record.action_type = call.action_type[1]
         /\ call.executed # None => record.executed = call.executed[1]

\* The positions of the list whose records satisfy the query's filters.
Matching(list, call) == {i \in 1..Len(list) : Satisfies(list[i], call)}

\* The k-th position, counting upwards, of a set of positions.
Nth(positions, k) ==
    CHOOSE i \in positions : Cardinality({j \in positions : j <= i}) = k

\* The first `limit` records of the list that satisfy the query's filters.
FirstMatching(list, call) ==
    [ k \in 1..Min(call.limit, Cardinality(Matching(list, call))) |->
        list[Nth(Matching(list, call), k)] ]

\* The records in the order they were inserted: the harness numbers them as they are added.
ByInsertion(list) ==
    [ k \in 1..Len(list) |->
        list[CHOOSE i \in 1..Len(list) :
                 Cardinality({j \in 1..Len(list) : list[j].id <= list[i].id}) = k] ]

\* C24 as stated: a list query returns, in the order of insertion into the store, the
\* first `limit` records that satisfy every supplied filter, and no others.
C24_ListInInsertionOrder ==
    ListQuery => ret[1].result = FirstMatching(ByInsertion(ret[1].served), ret[1])

\* What holds instead: a list query returns the first `limit` records that satisfy every
\* supplied filter in the order in which the backing serving the call hands out its
\* records; without a database that is the order of insertion.
ListFirstMatchingServed ==
    ListQuery =>
        /\ ret[1].result = FirstMatching(ret[1].served, ret[1])
        /\ Len(ret[1].result) <= ret[1].limit
        /\ \A k \in 1..Len(ret[1].result) : Satisfies(ret[1].result[k], ret[1])
        /\ ~USE_DATABASE => ret[1].served = ByInsertion(ret[1].served)

\* Two stored threats satisfy a query with limit 1 whose filters the first stored threat
\* fails: the answer is the second threat alone.
SecondRecordListedAlone ==
    /\ ListQuery
    /\ ret[1].op = "list_threats"
    /\ ret[1].severity = Some("high")
    /\ ret[1].limit = 1
    /\ Len(ret[1].served) >= 2
    /\ ~Satisfies(ret[1].served[1], ret[1])
    /\ Satisfies(ret[1].served[2], ret[1])
    /\ ret[1].result = << ret[1].served[2] >>

\* The table handed out its rows in another order than they were inserted, and the
\* query answered in the table's order.
ListedInTableOrder ==
    /\ ListQuery
    /\ USE_DATABASE
    /\ Len(ret[1].result) >= 2
    /\ ret[1].result[1].id > ret[1].result[2].id

\* ============================================================ claims: not found

\* The last step was a lookup or a resolve of a threat id that no stored record carries.
\* Neither call adds or removes an id, so the id was as absent when the call began.
AbsentThreatCall ==
    /\ GetCall \/ ResolveCall
    /\ ret[1].threat_id \notin KnownThreatIds

\* The status the last lookup or resolve answered with.
AnsweredStatus == IF GetCall THEN ret[1].answer.status ELSE ret[1].status

\* C25: a lookup or a resolve of a threat id that no stored record carries returns 404
\* (and such a resolve leaves the store unchanged).
C25_NotFound == AbsentThreatCall => AnsweredStatus = 404

\* What holds instead: the answer is 404 unless the id is no UUID or the resolve
\* handler's own query raised, and then it is 500.
NotFoundOrServerError ==
    AbsentThreatCall =>
        \/ AnsweredStatus = 404
        \/ AnsweredStatus = 500 /\ ret[1].threat_id = NotAUuid
        \/ AnsweredStatus = 500 /\ ResolveCall /\ USE_DATABASE

\* A resolve of an id that no stored record carries leaves the store as it was.
AbsentResolveLeavesStore ==
    [][ (ret' # None /\ ret'[1].op = "resolve_threat" /\ ret'[1].status # 200)
            => UNCHANGED << _threats_db, db_threats >> ]_vars

\* A lookup of an id that parses and that no record carries was answered 404.
ThreatNotFound ==
    /\ GetCall
    /\ AbsentThreatCall
    /\ ret[1].threat_id # NotAUuid
    /\ ret[1].answer.status = 404

\* A lookup of a path parameter that is no UUID was answered 500.
UnparsableIdLookedUp ==
    GetCall /\ ret[1].threat_id = NotAUuid /\ ret[1].answer.status = 500

\* A resolve of a well-formed id that no record carries was answered 500: the handler's
\* query raised.
AbsentResolveAnswered500 ==
    /\ ResolveCall
    /\ AbsentThreatCall
    /\ ret[1].threat_id # NotAUuid
    /\ ret[1].status = 500

\* The same for actions: a lookup of an id that parses and that no stored action carries
\* is answered 404, one of a path parameter that is no UUID 500.
ActionLookupOfAbsentId ==
    (ret # None /\ ret[1].op = "get_action"
        /\ (\A i \in 1..Len(_actions_db) : _actions_db[i].id # ret[1].action_id)
        /\ (\A j \in 1..Len(db_actions) : db_actions[j].id # ret[1].action_id))
    => ret[1].answer.status = IF ret[1].action_id = NotAUuid THEN 500 ELSE 404

\* ============================================================ claims: pipeline

\* The threat of call c is held by the in-memory list or the table: add_threat returned.
ThreatStored(c) == arg[c].threat # None /\ arg[c].threat[1].id \in KnownThreatIds

\* The effects of the stages on call c.
Broadcasted(c) == arg[c].broadcasts # <<>>

Scored(c) == arg[c].threat # None /\ arg[c].threat[1].ml_score # None

Decided(c) == arg[c].action # None

Actuated(c) == arg[c].actuated # None

Responded(c) == arg[c].response # None

\* C26: within one webhook call the stages run in the order Normalizer, Store,
\* Broadcast, Scorer, Decider, Actuator, each after the one before it has completed:
\* the threat is broadcast only once add_threat has returned for it, and the response to
\* a call that produced a threat is given only once the Actuator ran or declined.
C26_StagesInOrder ==
    \A c \in Calls :
        /\ ThreatStored(c) => arg[c].threat # None
        /\ Broadcasted(c) => ThreatStored(c)
        /\ Scored(c) => Broadcasted(c)
        /\ Decided(c) => Scored(c)
        /\ Actuated(c) => Decided(c)
        /\ (Responded(c) /\ arg[c].threat # None) => Actuated(c)
        /\ Broadcasted(c) => arg[c].broadcasts[1].message.threat_id = arg[c].threat[1].id

\* One call has stored and broadcast its threat and waits for the Scorer while the other
\* has run its action and responded.
C26_Witness ==
    \E c, d \in Calls :
        /\ Broadcasted(c) /\ ~Scored(c)
        /\ Responded(d) /\ arg[d].actuated = Some("executed")

\* ============================================================ claims: concurrent ingestion

\* Every webhook call has responded.
AllResponded == \A c \in Calls : arg[c].pc = "done"

\* The calls whose body was a valid envelope.
ValidCalls ==
    {c \in Calls : arg[c].body # None /\ arg[c].body[1].json_ok
                                      /\ arg[c].body[1].event.is_mapping}

\* The record as the Normalizer built it: the later stages assign ml_score alone.
AsNormalized(threat) == [threat EXCEPT !.ml_score = None]

\* The record is a whole record that some call built.
CompleteRecord(record) ==
    \E c \in Calls :
        arg[c].threat # None /\ AsNormalized(record) = AsNormalized(arg[c].threat[1])

\* The list and the table, end to end.
AllStoredThreats == _threats_db \o db_threats

\* C28: whatever the interleaving of the webhook calls at their suspension points, once
\* all have responded the store holds exactly one new threat per call with a valid
\* envelope, with pairwise distinct ids, each the threat_id its caller was answered
\* with, every one a whole record; and a list_threats taken while calls are in flight
\* shows whole records only.
C28_ConcurrentIngestionLosesNothing ==
    /\ AllResponded =>
         /\ Len(AllStoredThreats) = Cardinality(ValidCalls)
         /\ NoDuplicates(AllStoredThreats)
         /\ KnownThreatIds = {arg[c].response[1].response.threat_id : c \in ValidCalls}
         /\ \A i \in 1..Len(AllStoredThreats) : CompleteRecord(AllStoredThreats[i])
    /\ (ret # None /\ ret[1].op = "list_threats" /\ "in_flight" \in DOMAIN ret[1]) =>
         \A i \in 1..Len(ret[1].result) : CompleteRecord(ret[1].result[i])

\* Two calls with valid envelopes were both suspended in their broadcast when the list
\* was taken, which showed both threats, and both have responded since.
C28_Witness ==
    /\ AllResponded
    /\ {1, 2} \subseteq ValidCalls
    /\ ret # None
    /\ {1, 2} \subseteq ret[1].in_flight
    /\ Len(ret[1].result) = 2
    /\ Len(AllStoredThreats) = Cardinality(ValidCalls)

\* ============================================================ claims: confirmation

\* The completed call was handed an action that requires confirmation.
HeldBackCall ==
    ret # None /\ ret[1].op = "execute_action" /\ ret[1].given.requires_confirmation

\* C29: execute_action on an action with requires_confirmation = true sets executed_at,
\* invokes no orchestrator operation and dispatches no alert or log (the action is left
\* not executed, with no outcome), and leaves the action store as it was.
C29_HeldBackForConfirmation ==
    HeldBackCall =>
        /\ ret[1].given.executed_at = None
        /\ ret[1].action.executed_at = Some(now - 1)
        /\ ret[1].calls = <<>>
        /\ ret[1].action.executed = FALSE
        /\ ret[1].action.success = None
        /\ ret[1].action.error_message = None
        /\ ret[1].action = [ret[1].given EXCEPT !.executed_at = Some(now - 1)]
        /\ _actions_db = <<>>
        /\ db_actions = <<>>

\* A terminate_pod of HIGH risk that requires confirmation was handed over with a threat
\* on a pod, on a process with an orchestrator client.
C29_Witness ==
    /\ HeldBackCall
    /\ k8s_initialized
    /\ ret[1].given.action_type = "terminate_pod"
    /\ ret[1].given.risk_level = "high"
    /\ ret[1].threat # None
    /\ ret[1].threat[1].source_pod # None
    /\ ret[1].action.executed_at # None

\* ============================================================ claims: learned policy

\* The completed decide_action call was decided by the agent: it is loaded and its
\* predict returned.
LearnedCall ==
    ret # None /\ ret[1].op = "decide_action" /\ use_rl_agent /\ ~ret[1].agent.raises

\* What the table policy decides for the threat of the completed call.
TableDecision == _decide_with_rules(ret[1].threat, ret[1].action.id)

\* The agent picked the action type the table picks.
AgreesWithTable == LearnedCall /\ ret[1].action.action_type = TableDecision.action_type

\* C30 as stated: where the learned policy picks the action type of the table, the
\* action's risk_level, confidence and requires_confirmation are those of the table
\* policy.
C30_SamePostProcessing ==
    AgreesWithTable =>
        /\ ret[1].action.risk_level = TableDecision.risk_level
        /\ ret[1].action.confidence = TableDecision.confidence
        /\ ret[1].action.requires_confirmation = TableDecision.requires_confirmation

\* What holds instead: the learned policy has a post-processing of its own.  Its risk_level
\* follows from the action type and the severity, its confidence is 0.7 plus 0.3 of a
\* non-zero ml_score, capped at 1, and only the rule for requires_confirmation (risk
\* MEDIUM or HIGH) is the table policy's.
LearnedPostProcessing ==
    LearnedCall =>
        LET action == ret[1].action
            threat == ret[1].threat
            ml     == IF threat.ml_score = None THEN 0 ELSE threat.ml_score[1]
        IN  /\ action.risk_level =
                 CASE action.action_type \in {"terminate_pod", "isolate_pod"} ->
                        IF threat.severity = "critical" THEN "high" ELSE "medium"
                   [] action.action_type = "escalate" -> "high"
                   [] OTHER -> "low"
            /\ action.confidence = IF 700 + 3 * ml > 1000 THEN 1000 ELSE 700 + 3 * ml
            /\ action.requires_confirmation <=> action.risk_level \in {"medium", "high"}
            /\ (AgreesWithTable /\ action.risk_level = TableDecision.risk_level)
                   => action.requires_confirmation = TableDecision.requires_confirmation

\* The agent picks isolate_pod for a critical threat that is no reverse shell, as the
\* table does: the table rates it MEDIUM with confidence 0.8 + 0.2 * 0.5, the learned
\* policy HIGH with confidence 0.7 + 0.3 * 0.5.
LearnedAndTableDiffer ==
    /\ AgreesWithTable
    /\ ret[1].threat.severity = "critical"
    /\ ret[1].threat.ml_score = Some(50)
    /\ ret[1].action.action_type = "isolate_pod"
    /\ TableDecision.risk_level = "medium"
    /\ TableDecision.confidence = 900
    /\ ret[1].action.risk_level = "high"
    /\ ret[1].action.confidence = 850

\* ============================================================ claims: start-up

\* The start-up event has completed: the application serves requests.
Serving == arg # None /\ arg[1].op = "app" /\ arg[1].phase = "serving"

\* C31: once the start-up event has completed, and so before any webhook call is served,
\* the Actuator's initialize has run: it holds an orchestrator client exactly when the
\* orchestrator is reachable, and then its health status is "healthy".
C31_OrchestratorProbedAtStartup ==
    Serving =>
        /\ k8s_initialized = remediation_initialize(arg[1].host)
        /\ arg[1].host.kube_config => remediation_health_check.status = "healthy"

\* What holds instead: the served application never holds an orchestrator client, and
\* its health check says "degraded".
NeverProbed ==
    Serving =>
        /\ ~k8s_initialized
        /\ remediation_health_check = [status |-> "degraded", k8s_available |-> FALSE]

\* On a host whose kubeconfig loads, the served application answered /health with the
\* Actuator degraded.
DegradedThoughReachable ==
    /\ Serving
    /\ arg[1].host.kube_config
    /\ ret # None
    /\ ret[1].op = "health"
    /\ ret[1].remediation.status = "degraded"

\* ============================================================ claims: stable threats

\* The identity and classification of a stored record.
Classification(t) ==
    [ id |-> t.id, detected_at |-> t.detected_at, severity |-> t.severity,
      threat_type |-> t.threat_type ]

\* The identities and classifications the list and the table hold.
StoredClassifications ==
    {Classification(_threats_db[i]) : i \in 1..Len(_threats_db)}
        \cup {Classification(db_threats[i]) : i \in 1..Len(db_threats)}

\* C32: whatever webhook, simulate, resolve, list, lookup and explain calls are made, a
\* stored threat keeps its id, detected_at, severity and threat_type, and no step removes
\* a stored threat: every record held before a step is held after it, in the list or in
\* the table where it was, with the same identity and classification.
C32_StoredThreatsStable ==
    [][ /\ {Classification(_threats_db[i]) : i \in 1..Len(_threats_db)}
            \subseteq {Classification(_threats_db'[i]) : i \in 1..Len(_threats_db')}
        /\ {Classification(db_threats[i]) : i \in 1..Len(db_threats)}
            \subseteq {Classification(db_threats'[i]) : i \in 1..Len(db_threats')}
        /\ \A i \in 1..Len(_threats_db) :
              Classification(_threats_db'[i]) = Classification(_threats_db[i])
        /\ \A i \in 1..Len(db_threats) :
              Classification(db_threats'[i]) = Classification(db_threats[i])
        /\ \A c \in StoredClassifications' :
              \A d \in StoredClassifications' : c.id = d.id => c = d ]_vars

\* A threat stored by one webhook call has been resolved, and a second webhook call has
\* stored another threat since: the first is held with its classification and marked.
C32_Witness ==
    /\ ret # None
    /\ ret[1].op = "falco_webhook"
    /\ ret[1].status = 200
    /\ StoredThreats >= 2
    /\ \E c \in StoredClassifications : c.id = 1 /\ c.detected_at = 1
    /\ 1 \in ResolvedIds
    /\ \E c \in StoredClassifications : c.id # 1

\* ============================================================ claims: closed subscribers

\* The stream endpoint's bookkeeping is in place.
Streaming == arg # None /\ arg[1].op = "stream"

\* C33: a subscriber whose transport has closed is removed from the membership at the
\* latest once a send to it has failed.
C33_RemovedOnFailedSend ==
    Streaming => \A s \in arg[1].failed : s \notin Range(active_connections)

\* C33, the eventual half: a subscriber whose transport has closed is eventually no
\* member.
ClosedEventuallyRemoved ==
    \A s \in HubSockets :
        (Streaming /\ s \in arg[1].closed) ~> (s \notin Range(active_connections))

\* What holds instead: a subscriber leaves the membership exactly when its own handler
\* catches WebSocketDisconnect, and never comes back.
RemovedByItsHandlerOnly ==
    Streaming =>
        \A s \in HubSockets :
            s \in Range(active_connections)
                <=> arg[1].handler[s] \in {"receive_text", "send_json", "raised"}

\* A send of a broadcast to a closed subscriber has failed and it is a member still.
MemberAfterFailedSend ==
    /\ Streaming
    /\ ret # None
    /\ ret[1].op = "broadcast"
    /\ \E s \in ret[1].raised : s \in Range(active_connections)

\* The handler of a closed subscriber has ended with an exception it does not catch:
\* nothing will remove the subscriber.
MemberLeftBehind ==
    /\ Streaming
    /\ \E s \in arg[1].closed :
          arg[1].handler[s] = "raised" /\ s \in Range(active_connections)

\* ==================================================== claims: pod-affecting actions

\* The action types that touch a pod.
PodActionTypes == {"terminate_pod", "isolate_pod"}

\* The webhook decided a pod-affecting Action.
PodActionDecided ==
    WebhookCall /\ ret[1].action # None /\ ret[1].action[1].action_type \in PodActionTypes

\* The stored actions of a pod-affecting type that are marked executed.
ExecutedPodActions ==
    { i \in 1..Len(_actions_db) :
        _actions_db[i].action_type \in PodActionTypes /\ _actions_db[i].executed } \cup
    { i \in 1..Len(db_actions) :
        db_actions[i].action_type \in PodActionTypes /\ db_actions[i].executed }

\* C34: no pod-affecting action is ever auto-executed by the webhook: under the rule
\* policy and under the learned policy, no Action of type TERMINATE_POD or ISOLATE_POD
\* reaches executed = true, in the response or in the store, and no webhook run invokes
\* an orchestrator operation.
C34_NoPodActionAutoExecuted ==
    /\ PodActionDecided =>
          /\ ~ret[1].executed_call
          /\ ~ret[1].action[1].executed
          /\ ret[1].action[1].executed_at = None
    /\ WebhookCall => ret[1].calls = <<>>
    /\ ExecutedPodActions = {}

\* C34 witness: the learned policy decided a pod-affecting Action with confidence above
\* 0.85, and the webhook left it alone.
C34_Witness ==
    /\ PodActionDecided
    /\ use_rl_agent
    /\ ret[1].action[1].confidence > 850
    /\ ~ret[1].action[1].executed

\* The rule policy decided a pod-affecting Action with confidence above 0.85 as well.
RulePodActionHeldBack ==
    /\ PodActionDecided
    /\ ~use_rl_agent
    /\ ret[1].action[1].confidence > 850
    /\ ~ret[1].action[1].executed

\* ============================================================ claims: the webhook's gate

\* The webhook decided an Action.
ActionDecided == WebhookCall /\ ret[1].action # None

\* C35: the webhook calls execute_action if and only if the decided Action has
\* confidence > 0.85 and risk_level LOW; in every other case the Action keeps
\* executed = false, executed_at unset, success unknown, and is not added to the action
\* store.
C35_ExecuteCalledIffGatePassed ==
    ActionDecided =>
        LET action == ret[1].action[1]
            passed == action.confidence > 850 /\ action.risk_level = "low"
        IN  /\ ret[1].executed_call <=> passed
            /\ ~passed =>
                 /\ ~action.executed
                 /\ action.executed_at = None
                 /\ action.success = None
                 /\ action.id \notin StoredActionIds

\* C35 witness: a LOW-risk Action of confidence exactly 0.85 was decided; execute_action
\* was not called and the Action is in no store.
C35_Witness ==
    /\ ActionDecided
    /\ ret[1].action[1].risk_level = "low"
    /\ ret[1].action[1].confidence = 850
    /\ ~ret[1].executed_call
    /\ ret[1].action[1].id \notin StoredActionIds

\* The other side of the gate: execute_action was called for an Action of LOW risk and
\* confidence above 0.85.
GatePassed ==
    /\ ActionDecided
    /\ ret[1].executed_call
    /\ ret[1].action[1].risk_level = "low"
    /\ ret[1].action[1].confidence > 850
    /\ ret[1].action[1].executed_at # None

\* ==================================================== claims: the score on the record

\* The webhook accepted an envelope and answered with its threat.
ThreatAccepted == WebhookCall /\ ret[1].status = 200 /\ ret[1].threat # None

\* C36: after a webhook call returns for an accepted envelope, the Threat obtained from
\* the Store by its id carries ml_score equal to the value the Scorer returned in that
\* call, with the in-memory backing and with the durable backing alike.
C36_StoredThreatCarriesScore ==
    ThreatAccepted =>
        LET got == get_threat(ret[1].threat[1].id, TRUE)
        IN  /\ got.status = 200
            /\ got.threat[1].ml_score = ret[1].threat[1].ml_score

\* What holds instead: the record carries the score wherever the in-memory list holds
\* it, the backing being the list or the insert having failed.
ListedThreatCarriesScore ==
    ThreatAccepted =>
        LET listed == Find(_threats_db, ret[1].threat[1].id)
        IN  listed # None => listed[1].ml_score = ret[1].threat[1].ml_score

\* The durable backing holds the record as it was before scoring: the row of the
\* accepted threat has no ml_score while the call's threat has one.
StoredRowWithoutScore ==
    /\ ThreatAccepted
    /\ USE_DATABASE
    /\ ret[1].threat[1].ml_score # None
    /\ Find(db_threats, ret[1].threat[1].id) # None
    /\ Find(db_threats, ret[1].threat[1].id)[1].ml_score = None

\* With the in-memory backing the record obtained by id carries the score.
InMemoryRecordScored ==
    /\ ThreatAccepted
    /\ ~USE_DATABASE
    /\ get_threat(ret[1].threat[1].id, TRUE).status = 200
    /\ get_threat(ret[1].threat[1].id, TRUE).threat[1].ml_score = ret[1].threat[1].ml_score
    /\ ret[1].threat[1].ml_score # None

\* ==================================================== claims: resolve and the backings

\* A resolve was answered for the id of a record an add_threat call has stored.
StoredThreatResolveCall ==
    /\ ret # None
    /\ ret[1].op = "resolve_threat"
    /\ ret[1].threat_id \in KnownThreatIds

\* C37: for any threat whose add_threat call returned, a later resolve of its id returns
\* {status: "resolved"}, never 404 and never an uncaught exception, whether the record
\* landed in the durable backing or, after a durable write failure, in the in-memory
\* backing, and whether or not the durable backing fails during the resolve itself.
C37_ResolveSurvivesBackingFailures ==
    StoredThreatResolveCall =>
        ret[1].status = 200 /\ ret[1].response.status = "resolved"

\* What holds instead: with the in-memory backing every resolve of a stored record
\* answers "resolved"; with the durable backing it answers "resolved", 404 or 500.
ResolveOfStoredInMemory ==
    StoredThreatResolveCall =>
        /\ ret[1].status \in {200, 404, 500}
        /\ ~USE_DATABASE => ret[1].status = 200 /\ ret[1].response.status = "resolved"
        /\ ret[1].status = 200 => ret[1].response.status = "resolved"

\* The record landed in the in-memory list after a failed insert; the resolve, reading
\* the table, answers 404.
StoredInListAnswered404 ==
    /\ StoredThreatResolveCall
    /\ USE_DATABASE
    /\ Find(_threats_db, ret[1].threat_id) # None
    /\ ret[1].status = 404

\* The record is a row of the table; the handler's own query fails and the resolve
\* answers 500.
StoredRowAnswered500 ==
    /\ StoredThreatResolveCall
    /\ USE_DATABASE
    /\ Find(db_threats, ret[1].threat_id) # None
    /\ ret[1].status = 500

====
